---- MODULE Spec2Model ----
(***************************************************************************)
(* Course-section extraction and parse-quality validation of the           *)
(* class-finder repository.                                                *)
(*                                                                         *)
(* A text is a sequence of one-character strings, so that the substring,   *)
(* prefix, trimming and number-parsing steps of the extractors are         *)
(* computed character by character as the page scripts compute them.       *)
(* Column indices are 0-based as in the source; TLA+ sequences are         *)
(* 1-based, so cell k of a row is element k + 1 of the sequence.           *)
(***************************************************************************)
EXTENDS Integers, Sequences, FiniteSets, TLC

VARIABLES subject, page, parser, courses, report,
          rerun, recheck,
          calls, test_results, sorted_results, returned,
          cache, now, answer

\* What a second invocation on the same input returned.
second == <<rerun, recheck>>

\* The comparison harness: the parsers run so far, their result entries,
\* the ranking printed and the value returned.
harness == <<calls, test_results, sorted_results, returned>>

\* The application's cache directory, the clock, and what the last
\* scrape_courses call did.
caching == <<cache, now, answer>>

vars == <<subject, page, parser, courses, report, second, harness, caching>>

-----------------------------------------------------------------------------
(* Bounds of the explored inputs.                                          *)

MaxHeaderLen == 2
MaxDataRows == 1
MaxPreamble == 3

-----------------------------------------------------------------------------
(* JavaScript values and string primitives used by the page scripts.       *)

\* The value of an out-of-range array read or of a missing object key.
Undefined == <<"undefined">>

\* The result of a failed number parse; a parsed number n is <<n>>.
NaN == <<>>

UpperChars ==
    <<"A", "B", "C", "D", "E", "F", "G", "H", "I", "J", "K", "L", "M",
      "N", "O", "P", "Q", "R", "S", "T", "U", "V", "W", "X", "Y", "Z">>

LowerChars ==
    <<"a", "b", "c", "d", "e", "f", "g", "h", "i", "j", "k", "l", "m",
      "n", "o", "p", "q", "r", "s", "t", "u", "v", "w", "x", "y", "z">>

DigitChars == <<"0", "1", "2", "3", "4", "5", "6", "7", "8", "9">>

Range(s) == {s[i] : i \in DOMAIN s}

isDigit(c) == c \in Range(DigitChars)

isSpace(c) == c \in {" ", "\t", "\n"}

\* String.prototype.toLowerCase
toLowerCase(s) ==
    IF s = <<>> THEN <<>>
    ELSE [i \in 1..Len(s) |->
            IF \E k \in DOMAIN UpperChars : UpperChars[k] = s[i]
            THEN LowerChars[CHOOSE k \in DOMAIN UpperChars : UpperChars[k] = s[i]]
            ELSE s[i]]

\* String.prototype.includes
includes(s, p) ==
    \E i \in 0..(Len(s) - Len(p)) : SubSeq(s, i + 1, i + Len(p)) = p

\* String.prototype.startsWith
startsWith(s, p) == Len(p) <= Len(s) /\ SubSeq(s, 1, Len(p)) = p

\* String.prototype.trim
trim(s) ==
    LET keep == {i \in DOMAIN s : ~isSpace(s[i])}
    IN  IF keep = {} THEN <<>>
        ELSE SubSeq(s, CHOOSE i \in keep : \A j \in keep : i <= j,
                       CHOOSE i \in keep : \A j \in keep : j <= i)

\* replace(/[^a-z0-9]/g, '')
stripNonAlnum(s) ==
    SelectSeq(s, LAMBDA c : c \in Range(LowerChars) \/ isDigit(c))

DigitVal(c) == (CHOOSE k \in DOMAIN DigitChars : DigitChars[k] = c) - 1

RECURSIVE NumVal(_)
NumVal(d) ==
    IF d = <<>> THEN 0
    ELSE 10 * NumVal(SubSeq(d, 1, Len(d) - 1)) + DigitVal(d[Len(d)])

\* The longest prefix of s made of decimal digits.
LeadingDigits(s) ==
    LET stop == {i \in DOMAIN s : ~isDigit(s[i])}
        n == IF stop = {} THEN Len(s)
             ELSE (CHOOSE i \in stop : \A j \in stop : i <= j) - 1
    IN  SubSeq(s, 1, n)

\* parseInt: leading white space skipped, optional sign, then the leading
\* digits; NaN when there is no digit (also for undefined).
parseInt(x) ==
    IF x = Undefined THEN NaN
    ELSE LET t == trim(x)
             signed == t # <<>> /\ t[1] \in {"-", "+"}
             body == IF signed THEN Tail(t) ELSE t
             d == LeadingDigits(body)
         IN  IF d = <<>> THEN NaN
             ELSE IF signed /\ t[1] = "-" THEN <<0 - NumVal(d)>>
             ELSE <<NumVal(d)>>

\* `parseInt(...) || 0`: NaN and 0 are falsy.
OrZero(v) == IF v = NaN THEN 0 ELSE v[1]

\* `text || dflt`: undefined and the empty string are falsy.
\* The default for a missing cell only: an empty cell is kept.
OrText_MissingOnly(x, dflt) == IF x = Undefined THEN dflt ELSE x

OrText(x, dflt) == IF x = Undefined \/ x = <<>> THEN dflt ELSE x

\* cells[k] of a JavaScript array.
Cell(cells, k) ==
    IF k >= 0 /\ k < Len(cells) THEN cells[k + 1] ELSE Undefined

\* Array.prototype.map(cell => cell.textContent.trim()) over a row.
TrimCells(row) ==
    IF row = <<>> THEN <<>> ELSE [i \in 1..Len(row) |-> trim(row[i])]

\* table.textContent: the text of all cells, one after the other.
RECURSIVE JoinCells(_)
JoinCells(row) ==
    IF row = <<>> THEN <<>> ELSE row[1] \o <<"\n">> \o JoinCells(Tail(row))

RECURSIVE TextContent(_)
TextContent(rows) ==
    IF rows = <<>> THEN <<>>
    ELSE JoinCells(rows[1]) \o TextContent(Tail(rows))

-----------------------------------------------------------------------------
(* Literals of the page scripts.                                           *)

TBA == <<"T", "B", "A">>

DefaultCredits == <<"3", ".", "0", "0", "0">>

DefaultScheduleType == <<"L", "e", "c", "t", "u", "r", "e">>

DefaultSection == <<"0", "0", "1">>

CRNLabel == <<"C", "R", "N">>

\* The flag with the comparison weakened to >=.
Availability_AtLeast(seatsAvailable, waitlistCount) ==
    seatsAvailable >= waitlistCount

\* `seatsAvailable > waitlistCount`, as every extractor computes the flag.
Availability(seatsAvailable, waitlistCount) == seatsAvailable > waitlistCount

-----------------------------------------------------------------------------
(* Header detection and column mapping of the header-based extractors.     *)

\* The if / else-if chain of SmartHeaderParser: one entry per branch, in order.
SmartPatterns ==
    <<
      [field |-> "course", patterns |->
        << <<"c", "o", "u", "r", "s", "e">>,
           <<"s", "u", "b", "j", "e", "c", "t">>,
           <<"c", "l", "a", "s", "s">> >>],
      [field |-> "crn", patterns |->
        << <<"c", "r", "n">>,
           <<"r", "e", "f", "e", "r", "e", "n", "c", "e">>,
           <<"n", "u", "m", "b", "e", "r">> >>],
      [field |-> "credits", patterns |->
        << <<"c", "r", "e", "d", "i", "t">>,
           <<"h", "o", "u", "r">>,
           <<"u", "n", "i", "t", "s">> >>],
      [field |-> "days", patterns |->
        << <<"d", "a", "y", "s">>,
           <<"d", "a", "y">> >>],
      [field |-> "time", patterns |->
        << <<"t", "i", "m", "e">>,
           <<"p", "e", "r", "i", "o", "d">>,
           <<"h", "o", "u", "r", "s">> >>],
      [field |-> "dates", patterns |->
        << <<"d", "a", "t", "e">>,
           <<"d", "a", "t", "e", "s">>,
           <<"s", "t", "a", "r", "t">>,
           <<"e", "n", "d">>,
           <<"d", "u", "r", "a", "t", "i", "o", "n">> >>],
      [field |-> "seatsAvailable", patterns |->
        << <<"s", "e", "a", "t", "s", "a", "v", "a", "i", "l">>,
           <<"a", "v", "a", "i", "l", "a", "b", "l", "e">>,
           <<"o", "p", "e", "n">>,
           <<"c", "a", "p", "a", "c", "i", "t", "y">>,
           <<"s", "p", "o", "t", "s">> >>],
      [field |-> "waitlistCount", patterns |->
        << <<"w", "a", "i", "t">>,
           <<"w", "a", "i", "t", "l", "i", "s", "t">>,
           <<"q", "u", "e", "u", "e">>,
           <<"p", "e", "n", "d", "i", "n", "g">> >>],
      [field |-> "campus", patterns |->
        << <<"c", "a", "m", "p", "u", "s">>,
           <<"s", "i", "t", "e">>,
           <<"c", "e", "n", "t", "e", "r">> >>],
      [field |-> "location", patterns |->
        << <<"l", "o", "c", "a", "t", "i", "o", "n">>,
           <<"r", "o", "o", "m">>,
           <<"b", "u", "i", "l", "d", "i", "n", "g">>,
           <<"b", "l", "d", "g">>,
           <<"f", "a", "c", "i", "l", "i", "t", "y">> >>],
      [field |-> "instructor", patterns |->
        << <<"i", "n", "s", "t", "r", "u", "c", "t", "o", "r">>,
           <<"t", "e", "a", "c", "h", "e", "r">>,
           <<"f", "a", "c", "u", "l", "t", "y">>,
           <<"p", "r", "o", "f">> >>],
      [field |-> "scheduleType", patterns |->
        << <<"t", "y", "p", "e">>,
           <<"f", "o", "r", "m", "a", "t">>,
           <<"m", "e", "t", "h", "o", "d">>,
           <<"m", "o", "d", "e">> >>]
    >>

\* The same chain in MontgomeryCollegeScraper.extract_course_data.
GenericPatterns ==
    <<
      [field |-> "course", patterns |->
        << <<"c", "o", "u", "r", "s", "e">>,
           <<"s", "u", "b", "j", "e", "c", "t">>,
           <<"c", "l", "a", "s", "s">> >>],
      [field |-> "crn", patterns |->
        << <<"c", "r", "n">>,
           <<"r", "e", "f", "e", "r", "e", "n", "c", "e">>,
           <<"n", "u", "m", "b", "e", "r">> >>],
      [field |-> "credits", patterns |->
        << <<"c", "r", "e", "d", "i", "t">>,
           <<"h", "o", "u", "r">>,
           <<"u", "n", "i", "t", "s">> >>],
      [field |-> "days", patterns |->
        << <<"d", "a", "y", "s">>,
           <<"d", "a", "y">>,
           <<"s", "c", "h", "e", "d", "u", "l", "e">> >>],
      [field |-> "time", patterns |->
        << <<"t", "i", "m", "e">>,
           <<"p", "e", "r", "i", "o", "d">>,
           <<"h", "o", "u", "r", "s">> >>],
      [field |-> "dates", patterns |->
        << <<"d", "a", "t", "e">>,
           <<"d", "a", "t", "e", "s">>,
           <<"s", "t", "a", "r", "t">>,
           <<"e", "n", "d">>,
           <<"d", "u", "r", "a", "t", "i", "o", "n">> >>],
      [field |-> "seatsAvailable", patterns |->
        << <<"s", "e", "a", "t", "s", "a", "v", "a", "i", "l">>,
           <<"a", "v", "a", "i", "l", "a", "b", "l", "e">>,
           <<"o", "p", "e", "n">>,
           <<"c", "a", "p", "a", "c", "i", "t", "y">>,
           <<"s", "p", "o", "t", "s">> >>],
      [field |-> "waitlistCount", patterns |->
        << <<"w", "a", "i", "t">>,
           <<"w", "a", "i", "t", "l", "i", "s", "t">>,
           <<"q", "u", "e", "u", "e">>,
           <<"p", "e", "n", "d", "i", "n", "g">> >>],
      [field |-> "campus", patterns |->
        << <<"c", "a", "m", "p", "u", "s">>,
           <<"s", "i", "t", "e">>,
           <<"c", "e", "n", "t", "e", "r">> >>],
      [field |-> "location", patterns |->
        << <<"l", "o", "c", "a", "t", "i", "o", "n">>,
           <<"r", "o", "o", "m">>,
           <<"b", "u", "i", "l", "d", "i", "n", "g">>,
           <<"b", "l", "d", "g">>,
           <<"f", "a", "c", "i", "l", "i", "t", "y">> >>],
      [field |-> "instructor", patterns |->
        << <<"i", "n", "s", "t", "r", "u", "c", "t", "o", "r">>,
           <<"t", "e", "a", "c", "h", "e", "r">>,
           <<"f", "a", "c", "u", "l", "t", "y">>,
           <<"p", "r", "o", "f">> >>],
      [field |-> "scheduleType", patterns |->
        << <<"t", "y", "p", "e">>,
           <<"f", "o", "r", "m", "a", "t">>,
           <<"m", "e", "t", "h", "o", "d">>,
           <<"m", "o", "d", "e">> >>]
    >>

\* matchHeaderPattern(headerText, patterns)
matchHeaderPattern(headerText, patterns) ==
    LET text == stripNonAlnum(toLowerCase(headerText))
    IN  \E k \in DOMAIN patterns :
            LET cleanPattern == stripNonAlnum(toLowerCase(patterns[k]))
            IN  includes(text, cleanPattern) \/ includes(cleanPattern, text)

\* The branch of the chain a header cell takes: the field of the first entry
\* whose patterns match, "none" when the cell falls through the chain.
MatchField(headerText, chain) ==
    LET hits == {k \in DOMAIN chain :
                    matchHeaderPattern(headerText, chain[k].patterns)}
    IN  IF hits = {} THEN "none"
        ELSE chain[CHOOSE k \in hits : \A j \in hits : k <= j].field

\* The branch a header cell takes in DynamicColumnParser (the cell is already
\* trimmed and lower-cased there).
DynamicField(headerText) ==
    LET has(p) == includes(headerText, p)
    IN  CASE has(<<"c", "o", "u", "r", "s", "e">>) -> "course"
          [] has(<<"c", "r", "n">>) -> "crn"
          [] has(<<"c", "r", "e", "d", "i", "t">>)
             \/ has(<<"h", "o", "u", "r">>) -> "credits"
          [] has(<<"d", "a", "y">>) -> "days"
          [] has(<<"t", "i", "m", "e">>) -> "time"
          [] has(<<"d", "a", "t", "e">>) \/ has(<<"s", "t", "a", "r", "t">>)
             \/ has(<<"e", "n", "d">>) -> "dates"
          [] has(<<"s", "e", "a", "t">>)
             /\ has(<<"a", "v", "a", "i", "l">>) -> "seatsAvailable"
          [] has(<<"a", "v", "a", "i", "l", "a", "b", "l", "e">>)
             \/ has(<<"o", "p", "e", "n">>) -> "seatsAvailable"
          [] has(<<"w", "a", "i", "t">>) -> "waitlistCount"
          [] has(<<"c", "a", "m", "p", "u", "s">>)
             \/ has(<<"l", "o", "c", "a", "t", "i", "o", "n">>) -> "campus"
          [] has(<<"r", "o", "o", "m">>) \/ has(<<"b", "l", "d", "g">>)
             \/ headerText = <<"l", "o", "c", "a", "t", "i", "o", "n">>
                -> "location"
          [] has(<<"i", "n", "s", "t", "r", "u", "c", "t", "o", "r">>)
             \/ has(<<"t", "e", "a", "c", "h", "e", "r">>)
             \/ has(<<"f", "a", "c", "u", "l", "t", "y">>) -> "instructor"
          [] has(<<"t", "y", "p", "e">>)
             \/ has(<<"s", "c", "h", "e", "d", "u", "l", "e">>)
                -> "scheduleType"
          [] OTHER -> "none"

EmptyMap == [f \in {} |-> 0]

\* headerCells.forEach((headerText, index) => columnMap.<field> = index):
\* fields[i] is the branch taken by header cell i - 1; each assignment
\* replaces what the field held before.
RECURSIVE AssignColumns(_, _, _)
AssignColumns(fields, i, columnMap) ==
    IF i > Len(fields) THEN columnMap
    ELSE AssignColumns(fields, i + 1,
            IF fields[i] = "none" THEN columnMap
            ELSE (fields[i] :> (i - 1)) @@ columnMap)

\* The mapping with the chain's else-ifs turned into separate ifs: a header
\* cell sets every field whose patterns it matches.
SmartColumnMap_EveryMatch(headerCells, chain) ==
    LET hits(k) == {i \in DOMAIN headerCells :
                      matchHeaderPattern(headerCells[i], chain[k].patterns)}
        matched == {k \in DOMAIN chain : hits(k) # {}}
    IN  [f \in {chain[k].field : k \in matched} |->
            LET k == CHOOSE j \in matched : chain[j].field = f
            IN  (CHOOSE i \in hits(k) : \A j \in hits(k) : j <= i) - 1]

SmartColumnMap(headerCells, chain) ==
    AssignColumns([i \in DOMAIN headerCells |-> MatchField(headerCells[i], chain)],
                  1, EmptyMap)

DynamicColumnMap(headerCells) ==
    AssignColumns([i \in DOMAIN headerCells |-> DynamicField(headerCells[i])],
                  1, EmptyMap)

\* The fallback replaced by column 0 for every field.
MapOr_ZeroFallback(columnMap, field, fallback) ==
    IF field \in DOMAIN columnMap /\ columnMap[field] # 0
    THEN columnMap[field] ELSE 0

\* `columnMap.<field> || fallback`: an unmapped field and a field mapped to
\* column 0 both yield the fallback.
MapOr(columnMap, field, fallback) ==
    IF field \in DOMAIN columnMap /\ columnMap[field] # 0
    THEN columnMap[field] ELSE fallback

\* hasHeaderKeywords of the header search.
hasHeaderKeywords(cells) ==
    \E i \in DOMAIN cells :
        LET c == toLowerCase(cells[i])
        IN  \/ includes(c, <<"c", "o", "u", "r", "s", "e">>)
            \/ includes(c, <<"c", "r", "n">>)
            \/ includes(c, <<"w", "a", "i", "t">>)
            \/ includes(c, <<"s", "e", "a", "t">>)

HeaderScanRows == 3

\* The header search over every row of the table.
FindHeaderRow_AnyRow(rows) ==
    LET found == {i \in 0..(Len(rows) - 1) :
                    hasHeaderKeywords(TrimCells(rows[i + 1]))}
    IN  IF found = {} THEN 0 - 1
        ELSE CHOOSE i \in found : \A j \in found : i <= j

\* The header search loop: the first of the leading rows with a keyword,
\* -1 when the loop ends without one.
FindHeaderRow(rows) ==
    LET n == IF Len(rows) < HeaderScanRows THEN Len(rows) ELSE HeaderScanRows
        found == {i \in 0..(n - 1) : hasHeaderKeywords(TrimCells(rows[i + 1]))}
    IN  IF found = {} THEN 0 - 1
        ELSE CHOOSE i \in found : \A j \in found : i <= j

\* headerRowIndex after the `if (headerRowIndex === -1)` fallback.
HeaderRowIndex(rows) ==
    IF FindHeaderRow(rows) = 0 - 1 THEN 0 ELSE FindHeaderRow(rows)

-----------------------------------------------------------------------------
(* Tabular extraction.  rows is the sequence of the table's rows, each the *)
(* sequence of its cells' text.  The _debug_* keys the harness parsers add *)
(* to a record are left out.                                               *)

\* The record built by the header-based extractors from one data row.
MappedRecord(cells, columnMap) ==
    LET seatsAvailable ==
            OrZero(parseInt(Cell(cells, MapOr(columnMap, "seatsAvailable", 6))))
        waitlistCount ==
            OrZero(parseInt(Cell(cells, MapOr(columnMap, "waitlistCount", 7))))
    IN  [course |-> OrText(Cell(cells, MapOr(columnMap, "course", 0)), TBA),
         crn |-> OrText(Cell(cells, MapOr(columnMap, "crn", 1)), TBA),
         credits |->
            OrText(Cell(cells, MapOr(columnMap, "credits", 2)), DefaultCredits),
         days |-> OrText(Cell(cells, MapOr(columnMap, "days", 3)), TBA),
         time |-> OrText(Cell(cells, MapOr(columnMap, "time", 4)), TBA),
         dates |-> OrText(Cell(cells, MapOr(columnMap, "dates", 5)), TBA),
         seatsAvailable |-> seatsAvailable,
         waitlistCount |-> waitlistCount,
         campus |-> OrText(Cell(cells, MapOr(columnMap, "campus", 8)), TBA),
         location |-> OrText(Cell(cells, MapOr(columnMap, "location", 9)), TBA),
         instructor |->
            OrText(Cell(cells, MapOr(columnMap, "instructor", 10)), TBA),
         scheduleType |->
            OrText(Cell(cells, MapOr(columnMap, "scheduleType", 11)),
                   DefaultScheduleType),
         hasAvailability |-> Availability(seatsAvailable, waitlistCount)]

\* The application's record: the same fields plus courseTitle, section and
\* status (status is a template over the flag and the two counts).
GenericRecord(cells, columnMap) ==
    LET r == MappedRecord(cells, columnMap)
    IN  [courseTitle |-> r.course, section |-> DefaultSection,
         status |-> <<r.hasAvailability, r.seatsAvailable, r.waitlistCount>>]
        @@ r

\* The row test with the minimum of 3 cells lowered to 2.
IsCourseRow_TwoCells(cells, columnMap, subj) ==
    /\ Len(cells) >= 2
    /\ startsWith(OrText(Cell(cells, MapOr(columnMap, "course", 0)), <<>>), subj)

\* The row test of the header-based extractors.
IsCourseRow(cells, columnMap, subj) ==
    /\ Len(cells) >= 3
    /\ startsWith(OrText(Cell(cells, MapOr(columnMap, "course", 0)), <<>>), subj)

\* The data-row loop: rows i, i + 1, ... (0-based) of the table.
RECURSIVE MappedRows(_, _, _, _, _)
MappedRows(rows, i, columnMap, subj, generic) ==
    IF i >= Len(rows) THEN <<>>
    ELSE LET cells == TrimCells(rows[i + 1])
         IN  (IF IsCourseRow(cells, columnMap, subj)
              THEN <<IF generic THEN GenericRecord(cells, columnMap)
                     ELSE MappedRecord(cells, columnMap)>>
              ELSE <<>>)
             \o MappedRows(rows, i + 1, columnMap, subj, generic)

\* SmartHeaderParser.extract_course_data on one table.
SmartHeaderParser(rows, subj) ==
    IF ~includes(TextContent(rows), subj) \/ Len(rows) < 2 THEN <<>>
    ELSE LET h == HeaderRowIndex(rows)
             columnMap == SmartColumnMap(TrimCells(rows[h + 1]), SmartPatterns)
         IN  MappedRows(rows, h + 1, columnMap, subj, FALSE)

\* MontgomeryCollegeScraper.extract_course_data on one table.
GenericScraper(rows, subj) ==
    IF ~includes(TextContent(rows), subj) \/ Len(rows) < 2 THEN <<>>
    ELSE LET h == HeaderRowIndex(rows)
             columnMap == SmartColumnMap(TrimCells(rows[h + 1]), GenericPatterns)
         IN  MappedRows(rows, h + 1, columnMap, subj, TRUE)

\* DynamicColumnParser.extract_course_data on one table: row 0 is the header.
DynamicColumnParser(rows, subj) ==
    IF \/ ~includes(TextContent(rows), subj)
       \/ ~includes(TextContent(rows), CRNLabel)
       \/ Len(rows) < 2
    THEN <<>>
    ELSE MappedRows(rows, 1,
                    DynamicColumnMap([i \in DOMAIN rows[1] |->
                                        toLowerCase(trim(rows[1][i]))]),
                    subj, FALSE)

\* The fixed-position record of TableParser and of the harness's default
\* table parser.
PositionalRecord(cells) == MappedRecord(cells, EmptyMap)

\* TableParser.extract_course_data on one table: rows 1, 2, ... of a table
\* whose text holds the subject code and "CRN".
RECURSIVE PositionalRows(_, _, _)
PositionalRows(rows, i, subj) ==
    IF i >= Len(rows) THEN <<>>
    ELSE LET cells == TrimCells(rows[i + 1])
         IN  (IF Len(cells) >= 8 /\ startsWith(cells[1], subj)
              THEN <<PositionalRecord(cells)>> ELSE <<>>)
             \o PositionalRows(rows, i + 1, subj)

TableParser(rows, subj) ==
    IF \/ ~includes(TextContent(rows), subj)
       \/ ~includes(TextContent(rows), CRNLabel)
    THEN <<>>
    ELSE PositionalRows(rows, 1, subj)

\* The two cell arrangements of EnhancedTableParser: the 12+ column format
\* copies the cells as they are, the 8+ column format applies defaults.
EnhancedRecord(cells) ==
    LET seatsAvailable == OrZero(parseInt(Cell(cells, 6)))
        waitlistCount == OrZero(parseInt(Cell(cells, 7)))
    IN  IF Len(cells) >= 12
        THEN [course |-> cells[1], crn |-> cells[2], credits |-> cells[3],
              days |-> cells[4], time |-> cells[5], dates |-> cells[6],
              seatsAvailable |-> seatsAvailable,
              waitlistCount |-> waitlistCount,
              campus |-> cells[9], location |-> cells[10],
              instructor |-> cells[11],
              scheduleType |-> OrText(cells[12], DefaultScheduleType),
              hasAvailability |-> Availability(seatsAvailable, waitlistCount)]
        ELSE [course |-> cells[1], crn |-> cells[2],
              credits |-> OrText(Cell(cells, 2), DefaultCredits),
              days |-> OrText(Cell(cells, 3), TBA),
              time |-> OrText(Cell(cells, 4), TBA),
              dates |-> OrText(Cell(cells, 5), TBA),
              seatsAvailable |-> seatsAvailable,
              waitlistCount |-> waitlistCount,
              campus |-> OrText(Cell(cells, 8), TBA),
              location |-> OrText(Cell(cells, 9), TBA),
              instructor |-> OrText(Cell(cells, 10), TBA),
              scheduleType |-> DefaultScheduleType,
              hasAvailability |-> Availability(seatsAvailable, waitlistCount)]

\* firstCell.match(/^SUBJECT\d+/)
IsCourseCode(text, subj) ==
    /\ startsWith(text, subj)
    /\ Len(text) > Len(subj)
    /\ isDigit(text[Len(subj) + 1])

\* EnhancedTableParser.extract_course_data on one table: every row of every
\* table is looked at, the header row included.
RECURSIVE EnhancedRows(_, _, _)
EnhancedRows(rows, i, subj) ==
    IF i >= Len(rows) THEN <<>>
    ELSE LET cells == TrimCells(rows[i + 1])
         IN  (IF /\ Len(cells) >= 6
                 /\ IsCourseCode(cells[1], subj)
                 /\ Len(cells) >= 8
              THEN <<EnhancedRecord(cells)>> ELSE <<>>)
             \o EnhancedRows(rows, i + 1, subj)

EnhancedTableParser(rows, subj) == EnhancedRows(rows, 0, subj)

-----------------------------------------------------------------------------
(* Line-oriented extraction.  lines is document.body.innerText split at    *)
(* the line breaks.                                                        *)

Drop(s, n) == SubSeq(s, n + 1, Len(s))

\* The longest prefix of s made of white space.
LeadingSpace(s) ==
    LET stop == {i \in DOMAIN s : ~isSpace(s[i])}
        n == IF stop = {} THEN Len(s)
             ELSE (CHOOSE i \in stop : \A j \in stop : i <= j) - 1
    IN  SubSeq(s, 1, n)

\* /^\d+$/
IsNumber(s) == s # <<>> /\ \A i \in DOMAIN s : isDigit(s[i])

\* The line test without the subject code: any four characters, digits,
\* white space and five digits.
IsCourseLine_NoSubject(line, subj) ==
    LET afterSubj == Drop(line, Len(subj))
        number == LeadingDigits(afterSubj)
        afterNumber == Drop(afterSubj, Len(number))
        gap == LeadingSpace(afterNumber)
        afterGap == Drop(afterNumber, Len(gap))
    IN  /\ Len(line) >= Len(subj)
        /\ number # <<>>
        /\ gap # <<>>
        /\ Len(LeadingDigits(afterGap)) >= 5

\* line.match(/^SUBJECT\d+\s+\d{5}/): the subject code, one or more digits,
\* white space, and five digits (whatever follows them).
IsCourseLine(line, subj) ==
    /\ startsWith(line, subj)
    /\ LET afterSubj == Drop(line, Len(subj))
           number == LeadingDigits(afterSubj)
           afterNumber == Drop(afterSubj, Len(number))
           gap == LeadingSpace(afterNumber)
           afterGap == Drop(afterNumber, Len(gap))
       IN  /\ number # <<>>
           /\ gap # <<>>
           /\ Len(LeadingDigits(afterGap)) >= 5

\* String.prototype.split(/\s+/)
RECURSIVE SplitSpace(_)
SplitSpace(s) ==
    LET ws == {i \in DOMAIN s : isSpace(s[i])}
    IN  IF ws = {} THEN <<s>>
        ELSE LET k == CHOOSE i \in ws : \A j \in ws : i <= j
                 rest == Drop(s, k - 1)
             IN  <<SubSeq(s, 1, k - 1)>>
                 \o SplitSpace(Drop(rest, Len(LeadingSpace(rest))))

\* String.prototype.split('\t')[0]
BeforeTab(s) ==
    LET tabs == {i \in DOMAIN s : s[i] = "\t"}
    IN  IF tabs = {} THEN s
        ELSE SubSeq(s, 1, (CHOOSE i \in tabs : \A j \in tabs : i <= j) - 1)

Rockville == <<"R", "o", "c", "k", "v", "i", "l", "l", "e">>

Germantown == <<"G", "e", "r", "m", "a", "n", "t", "o", "w", "n">>

Takoma == <<"T", "a", "k", "o", "m", "a">>

Distance == <<"D", "i", "s", "t", "a", "n", "c", "e">>

TakomaParkSilverSpring ==
    <<"T", "a", "k", "o", "m", "a", " ", "P", "a", "r", "k", "/",
      "S", "i", "l", "v", "e", "r", " ", "S", "p", "r", "i", "n", "g">>

DistanceLearning ==
    <<"D", "i", "s", "t", "a", "n", "c", "e", " ",
      "L", "e", "a", "r", "n", "i", "n", "g">>

\* The campus-line test of the forward scans.
HasCampusToken(line) ==
    \/ includes(line, Rockville) \/ includes(line, Germantown)
    \/ includes(line, Takoma) \/ includes(line, Distance)

\* The if / else-if chain that names the campus of a text.
CampusName(text, dflt) ==
    CASE includes(text, Rockville) -> Rockville
      [] includes(text, Germantown) -> Germantown
      [] includes(text, Takoma) -> TakomaParkSilverSpring
      [] includes(text, Distance) -> DistanceLearning
      [] OTHER -> dflt

BIOL == <<"B", "I", "O", "L">>
COMM == <<"C", "O", "M", "M">>

BiolScanLines == 8

\* The forward scan of simple_biol_extractor over lines j .. stop - 1
\* (0-based), carrying seats and waitlist.
RECURSIVE BiolScan(_, _, _, _, _)
BiolScan(lines, j, stop, seats, waitlist) ==
    IF j >= stop THEN [seats |-> seats, waitlist |-> waitlist, campus |-> TBA]
    ELSE LET nextLine == trim(lines[j + 1])
             num == OrZero(parseInt(nextLine))
             seats2 == IF IsNumber(nextLine) /\ seats = 0 THEN num ELSE seats
             waitlist2 ==
                 IF IsNumber(nextLine) /\ seats # 0 /\ waitlist = 0
                 THEN num ELSE waitlist
         IN  IF HasCampusToken(nextLine)
             THEN [seats |-> seats2, waitlist |-> waitlist2,
                   campus |-> OrText(BeforeTab(nextLine), TBA)]
             ELSE BiolScan(lines, j + 1, stop, seats2, waitlist2)

\* The line loop of simple_biol_extractor from line i (0-based) on; the
\* subject code BIOL is part of its pattern.
RECURSIVE BiolLines(_, _)
BiolLines(lines, i) ==
    IF i >= Len(lines) THEN <<>>
    ELSE LET line == trim(lines[i + 1])
             parts == SplitSpace(line)
             stop == IF i + BiolScanLines < Len(lines)
                     THEN i + BiolScanLines ELSE Len(lines)
             found == BiolScan(lines, i + 1, stop, 0, 0)
         IN  (IF IsCourseLine(line, BIOL)
              THEN <<[course |-> parts[1], crn |-> parts[2],
                      seatsAvailable |-> found.seats,
                      waitlistCount |-> found.waitlist,
                      campus |-> found.campus,
                      hasAvailability |->
                          Availability(found.seats, found.waitlist)]>>
              ELSE <<>>)
             \o BiolLines(lines, i + 1)

SimpleBiolExtractor(lines) == BiolLines(lines, 0)

-----------------------------------------------------------------------------
(* The regular expressions of MontgomeryCollegeScraper._extract_course_data *)
(* (automated_course_scraper.py), each matched as the engine matches it:    *)
(* greedy runs are maximal, the lazy group is the shortest that lets the    *)
(* rest match, alternatives are tried in order.                             *)

Upper == Range(UpperChars)

Lower == Range(LowerChars)

Digits == Range(DigitChars)

isUpper(c) == c \in Upper

isLower(c) == c \in Lower

\* The longest prefix of s whose characters all belong to class.
LeadingRun(s, class) ==
    LET stop == {i \in DOMAIN s : s[i] \notin class}
        n == IF stop = {} THEN Len(s)
             ELSE (CHOOSE i \in stop : \A j \in stop : i <= j) - 1
    IN  SubSeq(s, 1, n)

\* The longest prefix of s that has no character of class.
LeadingOther(s, class) ==
    LET stop == {i \in DOMAIN s : s[i] \in class}
        n == IF stop = {} THEN Len(s)
             ELSE (CHOOSE i \in stop : \A j \in stop : i <= j) - 1
    IN  SubSeq(s, 1, n)

Remote == <<"R", "E", "M", "O", "T", "E">>

\* Length of the match of [A-Z]{2}\s+\d+ at the start of t, 0 for none.
RoomAt(t) ==
    IF Len(t) >= 2 /\ isUpper(t[1]) /\ isUpper(t[2])
    THEN LET gap == LeadingSpace(Drop(t, 2))
             num == LeadingDigits(Drop(t, 2 + Len(gap)))
         IN  IF gap # <<>> /\ num # <<>> THEN 2 + Len(gap) + Len(num) ELSE 0
    ELSE 0

\* Length of the match of [A-Z]+\s+[A-Z\d]+ at the start of t, 0 for none.
BuildingAt(t) ==
    LET bldg == LeadingRun(t, Upper)
        gap == LeadingSpace(Drop(t, Len(bldg)))
        room == LeadingRun(Drop(t, Len(bldg) + Len(gap)), Upper \cup Digits)
    IN  IF bldg # <<>> /\ gap # <<>> /\ room # <<>>
        THEN Len(bldg) + Len(gap) + Len(room) ELSE 0

\* Length of the match of ([A-Z]{2}\s+\d+|REMOTE|[A-Z]+\s+[A-Z\d]+) at the
\* start of t, 0 for none.
LocationAt(t) ==
    IF RoomAt(t) > 0 THEN RoomAt(t)
    ELSE IF startsWith(t, Remote) THEN Len(Remote)
    ELSE BuildingAt(t)

\* Length of the match of ([A-Z]{2}\s+\d+|REMOTE) at the start of t.
RoomOrRemoteAt(t) ==
    IF RoomAt(t) > 0 THEN RoomAt(t)
    ELSE IF startsWith(t, Remote) THEN Len(Remote) ELSE 0

\* Length of the match of [A-Z][a-z]+ at the start of t, 0 for none.
NameAt(t) ==
    IF t # <<>> /\ isUpper(t[1]) /\ LeadingRun(Tail(t), Lower) # <<>>
    THEN 1 + Len(LeadingRun(Tail(t), Lower)) ELSE 0

\* Length of the match of [A-Z][a-z]+\s+[A-Z]?\.?\s*[A-Z][a-z]+ at the start
\* of t, 0 for none: the optional initial and the optional dot are taken
\* when that leads to a match, given up otherwise.
InstructorAt(t) ==
    LET first == NameAt(t)
        gap == LeadingSpace(Drop(t, first))
        r == Drop(t, first + Len(gap))
        Try(initial, dot) ==
            LET a == Drop(r, initial)
                b == Drop(a, dot)
                sp == LeadingSpace(b)
                last == NameAt(Drop(b, Len(sp)))
            IN  IF /\ (initial = 1 => r # <<>> /\ isUpper(r[1]))
                   /\ (dot = 1 => a # <<>> /\ a[1] = ".")
                   /\ last > 0
                THEN first + Len(gap) + initial + dot + Len(sp) + last
                ELSE 0
    IN  IF first = 0 \/ gap = <<>> THEN 0
        ELSE IF Try(1, 1) > 0 THEN Try(1, 1)
        ELSE IF Try(1, 0) > 0 THEN Try(1, 0)
        ELSE IF Try(0, 1) > 0 THEN Try(0, 1)
        ELSE Try(0, 0)

\* nextLine.match(/([A-Z]{2}\s+\d+|REMOTE)/)[1]: the match at the leftmost
\* position that has one, Undefined when there is none.
RECURSIVE RoomOrRemoteIn(_)
RoomOrRemoteIn(text) ==
    IF text = <<>> THEN Undefined
    ELSE IF RoomOrRemoteAt(text) > 0
    THEN SubSeq(text, 1, RoomOrRemoteAt(text))
    ELSE RoomOrRemoteIn(Tail(text))

\* nextLine.match(/([A-Z][a-z]+\s+[A-Z]?\.?\s*[A-Z][a-z]+)/)[1]
RECURSIVE InstructorIn(_)
InstructorIn(text) ==
    IF text = <<>> THEN Undefined
    ELSE IF InstructorAt(text) > 0
    THEN SubSeq(text, 1, InstructorAt(text))
    ELSE InstructorIn(Tail(text))

\* parts[j].match(/\d{2}\/\d{2}\/\d{2}/)
HasDate(token) ==
    \E p \in 0..(Len(token) - 8) :
        /\ \A k \in {1, 2, 4, 5, 7, 8} : isDigit(token[p + k])
        /\ token[p + 3] = "/"
        /\ token[p + 6] = "/"

\* [A-Za-z\s\/]: a character of the campus group of the seat pattern.
inCampus(c) == isUpper(c) \/ isLower(c) \/ isSpace(c) \/ c = "/"

\* What follows (\d+)\s+(\d+) at the start of nextLine.
AfterCounts(nextLine) ==
    LET s1 == Drop(nextLine, Len(LeadingDigits(nextLine)))
        s2 == Drop(s1, Len(LeadingSpace(s1)))
    IN  Drop(s2, Len(LeadingDigits(s2)))

\* The text at which LOCATION must match when the white space before the
\* campus group takes a characters of r and the campus group g characters.
LocationText(r, a, g) ==
    LET rest == Drop(r, a + g) IN Drop(rest, Len(LeadingSpace(rest)))

\* \s+([A-Za-z\s\/]+?)\s+(LOCATION) matches r with lengths a and g.
CampusSplit(r, a, g) ==
    /\ a + g <= Len(r)
    /\ \A k \in (a + 1)..(a + g) : inCampus(r[k])
    /\ LeadingSpace(Drop(r, a + g)) # <<>>
    /\ LocationAt(LocationText(r, a, g)) > 0

\* The campus group is lazy: the shortest length from g on that lets the
\* rest match after a characters of white space, 0 when none does.
RECURSIVE CampusLength(_, _, _)
CampusLength(r, a, g) ==
    IF a + g > Len(r) THEN 0
    ELSE IF CampusSplit(r, a, g) THEN g
    ELSE CampusLength(r, a, g + 1)

\* The white space before the campus group is greedy: the longest length
\* from a down that lets the rest match, 0 when none does.
RECURSIVE SpaceLength(_, _)
SpaceLength(r, a) ==
    IF a = 0 THEN 0
    ELSE IF CampusLength(r, a, 1) > 0 THEN a
    ELSE SpaceLength(r, a - 1)

\* The values the scan leaves in seats, waitlist, campus, location and
\* instructor, as the record takes them up, with the availability flag
\* computed from the two counts.
Found(seats, waitlist, campus, location, instructor) ==
    [seatsAvailable |-> seats, waitlistCount |-> waitlist,
     campus |-> campus, location |-> location, instructor |-> instructor,
     hasAvailability |-> Availability(seats, waitlist)]

\* The groups of the seat pattern for the split (a, g) of r.
SeatGroups(nextLine, r, a, g) ==
    Found(OrZero(parseInt(LeadingDigits(nextLine))),
          OrZero(parseInt(LeadingDigits(
              Drop(Drop(nextLine, Len(LeadingDigits(nextLine))),
                   Len(LeadingSpace(
                       Drop(nextLine, Len(LeadingDigits(nextLine))))))))),
          trim(SubSeq(r, a + 1, a + g)),
          trim(SubSeq(LocationText(r, a, g), 1,
                      LocationAt(LocationText(r, a, g)))),
          trim(Drop(LocationText(r, a, g),
                    LocationAt(LocationText(r, a, g)))))

\* nextLine.match(/^(\d+)\s+(\d+)\s+([A-Za-z\s\/]+?)\s+(LOCATION)\s*(.*)/)
\* with LOCATION as in LocationAt: whether it matches, and its groups.
SeatPatternMatches(nextLine) ==
    LET s1 == Drop(nextLine, Len(LeadingDigits(nextLine)))
    IN  /\ LeadingDigits(nextLine) # <<>>
        /\ LeadingSpace(s1) # <<>>
        /\ LeadingDigits(Drop(s1, Len(LeadingSpace(s1)))) # <<>>
        /\ SpaceLength(AfterCounts(nextLine),
                       Len(LeadingSpace(AfterCounts(nextLine)))) > 0

SeatMatch(nextLine, r, a) == SeatGroups(nextLine, r, a, CampusLength(r, a, 1))

SeatPattern(nextLine) ==
    SeatMatch(nextLine, AfterCounts(nextLine),
              SpaceLength(AfterCounts(nextLine),
                          Len(LeadingSpace(AfterCounts(nextLine)))))

\* The first pair of consecutive all-digit tokens of a campus line
\* (`for (let m = 0; m < parts.length - 1; m++)`), <<>> when there is none.
NumberPair(parts) ==
    LET hits == {m \in 1..(Len(parts) - 1) :
                    IsNumber(parts[m]) /\ IsNumber(parts[m + 1])}
    IN  IF hits = {} THEN <<>>
        ELSE LET m == CHOOSE k \in hits : \A j \in hits : k <= j
             IN  <<OrZero(parseInt(parts[m])), OrZero(parseInt(parts[m + 1]))>>

AutoScanLines == 10

\* The branch for a line that holds a campus name.
CampusLine(nextLine, pair) ==
    Found(IF pair = <<>> THEN 0 ELSE pair[1],
          IF pair = <<>> THEN 0 ELSE pair[2],
          CampusName(nextLine, <<>>),
          OrText(RoomOrRemoteIn(nextLine), <<>>),
          OrText(InstructorIn(nextLine), <<>>))

\* The forward scan of _extract_course_data over lines k .. stop - 1
\* (0-based): the first line that matches the seat pattern or holds a
\* campus name ends it.
RECURSIVE AutoScan(_, _, _)
AutoScan(lines, k, stop) ==
    IF k >= stop THEN Found(0, 0, <<>>, <<>>, <<>>)
    ELSE IF SeatPatternMatches(trim(lines[k + 1]))
    THEN SeatPattern(trim(lines[k + 1]))
    ELSE IF HasCampusToken(trim(lines[k + 1]))
    THEN CampusLine(trim(lines[k + 1]),
                    NumberPair(SplitSpace(trim(lines[k + 1]))))
    ELSE AutoScan(lines, k + 1, stop)

\* timeStr: parts[4], parts[5], ... up to the first token holding a date,
\* each followed by a blank; j is 0-based.
RECURSIVE TimeTokens(_, _)
TimeTokens(parts, j) ==
    IF j >= Len(parts) \/ HasDate(parts[j + 1]) THEN <<>>
    ELSE parts[j + 1] \o <<" ">> \o TimeTokens(parts, j + 1)

\* The index (0-based) at which the time loop stops.
RECURSIVE TimeEnd(_, _)
TimeEnd(parts, j) ==
    IF j >= Len(parts) \/ HasDate(parts[j + 1]) THEN j
    ELSE TimeEnd(parts, j + 1)

DateRange(parts, j) ==
    IF j < Len(parts) /\ HasDate(parts[j + 1])
    THEN IF j + 2 < Len(parts) /\ parts[j + 2] = <<"-">>
         THEN parts[j + 1] \o <<" ", "-", " ">> \o parts[j + 3]
         ELSE parts[j + 1]
    ELSE <<>>

\* line.includes(subject) && line.includes(' - '): a course title header.
IsTitleLine(line, subj) ==
    includes(line, subj) /\ includes(line, <<" ", "-", " ">>)

\* The while loop of _extract_course_data from line i (0-based) on, with
\* the title seen last.
RECURSIVE AutoLines(_, _, _, _)
AutoLines(lines, i, subj, currentCourseTitle) ==
    IF i >= Len(lines) THEN <<>>
    ELSE LET line == trim(lines[i + 1])
             parts == SplitSpace(line)
             stop == IF i + AutoScanLines < Len(lines)
                     THEN i + AutoScanLines ELSE Len(lines)
         IN  IF IsTitleLine(line, subj)
             THEN AutoLines(lines, i + 1, subj, line)
             ELSE (IF IsCourseLine(line, subj) /\ Len(parts) >= 6
                   THEN <<[courseTitle |-> currentCourseTitle,
                           course |-> parts[1], crn |-> parts[2],
                           credits |-> parts[3], days |-> parts[4],
                           time |-> trim(TimeTokens(parts, 4)),
                           dateRange |-> DateRange(parts, TimeEnd(parts, 4)),
                           rawLine |-> line, subject |-> subj]
                          @@ AutoScan(lines, i + 1, stop)>>
                   ELSE <<>>)
                  \o AutoLines(lines, i + 1, subj, currentCourseTitle)

AutomatedScraper(lines, subj) == AutoLines(lines, 0, subj, <<>>)

-----------------------------------------------------------------------------
(* AlternativeStructureParser: every element whose text holds a course     *)
(* line is scanned, and each course line found in it yields a record.      *)

\* \w
WordChars == Upper \cup Lower \cup Digits \cup {"_"}

\* elementText.match(/\b\d+\b/g): the maximal runs of word characters that
\* are made of digits only, in order.
RECURSIVE NumberMatches(_)
NumberMatches(text) ==
    IF text = <<>> THEN <<>>
    ELSE LET word == LeadingRun(text, WordChars)
         IN  IF word = <<>>
             THEN NumberMatches(Drop(text, Len(LeadingOther(text, WordChars))))
             ELSE (IF IsNumber(word) THEN <<word>> ELSE <<>>)
                  \o NumberMatches(Drop(text, Len(word)))

\* lines joined by line breaks: the element's textContent.
RECURSIVE JoinLines(_)
JoinLines(lines) ==
    IF lines = <<>> THEN <<>>
    ELSE IF Len(lines) = 1 THEN lines[1]
    ELSE lines[1] \o <<"\n">> \o JoinLines(Tail(lines))

\* The record built for one course line of an element with text elementText.
AlternativeRecord(line, subj, elementText) ==
    LET code == subj \o LeadingDigits(Drop(line, Len(subj)))
        afterCode == Drop(line, Len(code))
        crn == SubSeq(Drop(afterCode, Len(LeadingSpace(afterCode))), 1, 5)
        numberMatches == NumberMatches(elementText)
        possibleSeats == OrZero(parseInt(Cell(numberMatches, 1)))
        possibleWaitlist == OrZero(parseInt(Cell(numberMatches, 2)))
        reasonable ==
            Len(numberMatches) >= 2 /\ possibleSeats < 100 /\ possibleWaitlist < 50
    IN  [course |-> code, crn |-> crn, credits |-> DefaultCredits,
         days |-> TBA, time |-> TBA, dates |-> TBA,
         seatsAvailable |-> IF reasonable THEN possibleSeats ELSE 0,
         waitlistCount |-> IF reasonable THEN possibleWaitlist ELSE 0,
         campus |-> CampusName(elementText, TBA),
         location |-> TBA, instructor |-> TBA,
         scheduleType |-> DefaultScheduleType,
         hasAvailability |->
            IF reasonable THEN Availability(possibleSeats, possibleWaitlist)
            ELSE FALSE]

\* lines.forEach over the trimmed, non-empty lines of one element.
RECURSIVE AlternativeLines(_, _, _, _)
AlternativeLines(lines, i, subj, elementText) ==
    IF i > Len(lines) THEN <<>>
    ELSE LET line == trim(lines[i])
         IN  (IF line # <<>> /\ IsCourseLine(line, subj)
              THEN <<AlternativeRecord(line, subj, elementText)>> ELSE <<>>)
             \o AlternativeLines(lines, i + 1, subj, elementText)

\* courseElements.forEach: the page text is the text of each of the
\* `wrappers` nested elements (html, body, ...) that enclose it.
RECURSIVE AlternativeElements(_, _, _)
AlternativeElements(lines, subj, wrappers) ==
    IF wrappers = 0 THEN <<>>
    ELSE AlternativeLines(lines, 1, subj, JoinLines(lines))
         \o AlternativeElements(lines, subj, wrappers - 1)

AlternativeStructureParser(lines, subj, wrappers) ==
    AlternativeElements(lines, subj, wrappers)

-----------------------------------------------------------------------------
(* parse_course_html: the lines of the page text, for the subject COMM     *)
(* only.                                                                   *)

Communication ==
    <<"c", "o", "m", "m", "u", "n", "i", "c", "a", "t", "i", "o", "n">>

\* 'COMM' in line and ('-' in line or 'COMMUNICATION' in line.upper()): a
\* course title header.
IsCommTitle(line) ==
    /\ includes(line, COMM)
    /\ \/ includes(line, <<"-">>)
       \/ includes(toLowerCase(line), Communication)

\* ' '.join(parts[j + 2:j + 4]), j counted from 0.
PotentialCampus(parts, j) ==
    IF j + 4 <= Len(parts) THEN parts[j + 3] \o <<" ">> \o parts[j + 4]
    ELSE parts[j + 3]

\* The first j >= 3 (counted from 0) with numbers at j and j + 1 and a
\* campus name in the two tokens after them; -1 where there is none.
SeatsIndex(parts) ==
    LET hits == {j \in 3..(Len(parts) - 1) :
                    /\ IsNumber(parts[j + 1])
                    /\ j + 1 < Len(parts)
                    /\ IsNumber(parts[j + 2])
                    /\ j + 2 < Len(parts)
                    /\ HasCampusToken(PotentialCampus(parts, j))}
    IN  IF hits = {} THEN 0 - 1
        ELSE CHOOSE j \in hits : \A k \in hits : j <= k

\* The course entry of a data line.  time_pattern and date_pattern both
\* need a '-', and a line that starts with COMM and holds a '-' has been
\* taken as a title before: days_time and dates stay empty.
CourseEntry(line, parts, current_course_title) ==
    LET j == SeatsIndex(parts)
        seats_avail == IF j < 0 THEN 0 ELSE NumVal(parts[j + 1])
        waitlist_count == IF j < 0 THEN 0 ELSE NumVal(parts[j + 2])
    IN  [course_title |-> current_course_title,
         course_code |-> parts[1], crn |-> parts[2], credits |-> parts[3],
         days_time |-> <<>>, dates |-> <<>>,
         seats_available |-> seats_avail,
         waitlist_count |-> waitlist_count,
         campus |-> IF j < 0 THEN <<>> ELSE PotentialCampus(parts, j),
         location |-> <<>>, instructor |-> <<>>,
         meets_criteria |-> seats_avail > waitlist_count,
         raw_line |-> line]

\* The for loop of parse_course_html from line i (0-based) on, with the
\* title seen last.
RECURSIVE CommLines(_, _, _)
CommLines(lines, i, current_course_title) ==
    IF i >= Len(lines) THEN <<>>
    ELSE LET line == trim(lines[i + 1])
             parts == SplitSpace(line)
         IN  IF IsCommTitle(line)
             THEN CommLines(lines, i + 1, line)
             ELSE (IF IsCourseLine(line, COMM) /\ Len(parts) >= 8
                   THEN <<CourseEntry(line, parts, current_course_title)>>
                   ELSE <<>>)
                  \o CommLines(lines, i + 1, current_course_title)

parse_course_html(lines) == CommLines(lines, 0, <<>>)

-----------------------------------------------------------------------------
(* ParseQualityValidator.  Scores are Python floats in the source; here    *)
(* they are exact fractions [num, den] in lowest terms with den > 0, and   *)
(* comparisons are exact.                                                  *)

RECURSIVE GCD(_, _)
GCD(a, b) == IF b = 0 THEN a ELSE GCD(b, a % b)

Abs(x) == IF x < 0 THEN 0 - x ELSE x

Rat(n, d) ==
    LET g == GCD(Abs(n), d) IN [num |-> n \div g, den |-> d \div g]

RatAdd(a, b) == Rat(a.num * b.den + b.num * a.den, a.den * b.den)

RatSub(a, b) == Rat(a.num * b.den - b.num * a.den, a.den * b.den)

RatMul(a, b) == Rat(a.num * b.num, a.den * b.den)

RatLE(a, b) == a.num * b.den <= b.num * a.den

RatMax(a, b) == IF RatLE(a, b) THEN b ELSE a

\* dict.get(key, default)
Get(r, key, dflt) == IF key \in DOMAIN r THEN r[key] ELSE dflt

\* self.criteria, in the order of the dictionary; threshold is the entry's
\* max_threshold or min_threshold.
Criteria ==
    << [name |-> "realistic_demand", weight |-> 50, threshold |-> 15,
        invert_scoring |-> TRUE],
       [name |-> "waitlist_diversity", weight |-> 30, threshold |-> 60,
        invert_scoring |-> FALSE],
       [name |-> "campus_completeness", weight |-> 25, threshold |-> 90,
        invert_scoring |-> FALSE],
       [name |-> "instructor_completeness", weight |-> 20, threshold |-> 80,
        invert_scoring |-> FALSE],
       [name |-> "location_completeness", weight |-> 10, threshold |-> 70,
        invert_scoring |-> FALSE],
       [name |-> "data_consistency", weight |-> 5, threshold |-> 95,
        invert_scoring |-> FALSE] >>

\* _is_valid_crn
IsValidCrn(crn) == IsNumber(crn) /\ Len(crn) = 5

HasAvailabilityNow(r) ==
    Get(r, "seatsAvailable", 0) > Get(r, "waitlistCount", 0)

HasWaitlist(r) == Get(r, "waitlistCount", 0) > 0

HasCampus(r) == Get(r, "campus", TBA) # TBA

HasInstructor(r) == Get(r, "instructor", TBA) # TBA

HasLocation(r) == Get(r, "location", TBA) # TBA

HasValidCrn(r) == IsValidCrn(Get(r, "crn", <<>>))

\* course.get('waitlistCount', 0) == 0
IsZeroWaitlist(r) == Get(r, "waitlistCount", 0) = 0

\* course.get('campus') == 'TBA'
IsTbaCampus(r) == Get(r, "campus", TBA) = TBA

\* The condition of a comprehension over the results, by its name.
Test(name, r) ==
    CASE name = "HasAvailabilityNow" -> HasAvailabilityNow(r)
      [] name = "HasWaitlist" -> HasWaitlist(r)
      [] name = "HasCampus" -> HasCampus(r)
      [] name = "HasInstructor" -> HasInstructor(r)
      [] name = "HasLocation" -> HasLocation(r)
      [] name = "HasValidCrn" -> HasValidCrn(r)
      [] name = "IsZeroWaitlist" -> IsZeroWaitlist(r)
      [] name = "IsTbaCampus" -> IsTbaCampus(r)

\* sum(1 for r in results if Test(r))
CountIf(results, name) ==
    Cardinality({i \in DOMAIN results : Test(name, results[i])})

RECURSIVE Hits(_, _)
\* [r for r in results if Test(r)]
Hits(results, name) ==
    IF results = <<>> THEN <<>>
    ELSE (IF Test(name, Head(results)) THEN <<Head(results)>> ELSE <<>>)
         \o Hits(Tail(results), name)

\* [r for r in results if Test(r)][:n]
FirstOf(results, name, n) ==
    SubSeq(Hits(results, name), 1,
           IF Len(Hits(results, name)) < n THEN Len(Hits(results, name)) ELSE n)

\* The share left as a fraction of 1.
Percentage_Ratio(count, results) == Rat(count, Len(results))

\* (count / len(results)) * 100
Percentage(count, results) == Rat(count * 100, Len(results))

\* The inverted score with the slope 3.33 rounded to 3.
DemandScore_Slope3(percentage, max_threshold) ==
    IF RatLE(percentage, Rat(max_threshold, 1)) THEN Rat(100, 1)
    ELSE RatMax(Rat(0, 1),
                RatSub(Rat(100, 1),
                       RatMul(RatSub(percentage, Rat(max_threshold, 1)),
                              Rat(3, 1))))

\* The inverted score of realistic_demand: 100 up to max_threshold, then
\* max(0, 100 - excess * 3.33).
DemandScore(percentage, max_threshold) ==
    IF RatLE(percentage, Rat(max_threshold, 1)) THEN Rat(100, 1)
    ELSE RatMax(Rat(0, 1),
                RatSub(Rat(100, 1),
                       RatMul(RatSub(percentage, Rat(max_threshold, 1)),
                              Rat(333, 100))))

RECURSIVE Distinct(_)
\* The values of a sequence, each once, in the order of first occurrence.
Distinct(values) ==
    IF values = <<>> THEN <<>>
    ELSE LET front == Distinct(SubSeq(values, 1, Len(values) - 1))
             last == values[Len(values)]
         IN  IF last \in Range(front) THEN front ELSE Append(front, last)

Reverse(values) == [k \in 1..Len(values) |-> values[Len(values) + 1 - k]]

\* list(set(values)): each value once, in an order that depends on the
\* string hashes of the interpreter process, here one of two orders.
HashOrder(values, seed) ==
    IF seed % 2 = 0 THEN Distinct(values) ELSE Reverse(Distinct(values))

\* _evaluate_criterion: the score and the details of one criterion.  The
\* formatted sample strings are kept as the records they are made from and
\* waitlist_range as its two ends.
EvaluateCriterion(criterion, results, config, seed) ==
    CASE criterion = "realistic_demand" ->
            LET n == CountIf(results, "HasAvailabilityNow")
                p == Percentage(n, results)
            IN  [score |-> IF config.invert_scoring
                           THEN DemandScore(p, config.threshold) ELSE p,
                 details |->
                    [courses_with_availability |-> n,
                     total_courses |-> Len(results),
                     percentage_with_availability |-> p,
                     expected_threshold |-> config.threshold,
                     sample_available_courses |->
                        FirstOf(results, "HasAvailabilityNow", 5)]]
      [] criterion = "waitlist_diversity" ->
            LET n == CountIf(results, "HasWaitlist")
                w == {Get(results[i], "waitlistCount", 0) : i \in DOMAIN results}
            IN  [score |-> Percentage(n, results),
                 details |->
                    [non_zero_waitlist |-> n, total_courses |-> Len(results),
                     percentage |-> Percentage(n, results),
                     waitlist_range |->
                        <<CHOOSE x \in w : \A y \in w : x <= y,
                          CHOOSE x \in w : \A y \in w : y <= x>>]]
      [] criterion = "campus_completeness" ->
            LET n == CountIf(results, "HasCampus")
            IN  [score |-> Percentage(n, results),
                 details |->
                    [real_campus |-> n, tba_campus |-> Len(results) - n,
                     percentage |-> Percentage(n, results),
                     campus_types |->
                        HashOrder([i \in DOMAIN results |->
                                      Get(results[i], "campus", TBA)], seed)]]
      [] criterion = "instructor_completeness" ->
            LET n == CountIf(results, "HasInstructor")
            IN  [score |-> Percentage(n, results),
                 details |->
                    [real_instructor |-> n, tba_instructor |-> Len(results) - n,
                     percentage |-> Percentage(n, results)]]
      [] criterion = "location_completeness" ->
            LET n == CountIf(results, "HasLocation")
            IN  [score |-> Percentage(n, results),
                 details |->
                    [real_location |-> n, tba_location |-> Len(results) - n,
                     percentage |-> Percentage(n, results)]]
      [] criterion = "data_consistency" ->
            LET n == CountIf(results, "HasValidCrn")
            IN  [score |-> Percentage(n, results),
                 details |->
                    [valid_crns |-> n, invalid_crns |-> Len(results) - n,
                     percentage |-> Percentage(n, results)]]
      [] OTHER -> [score |-> Rat(0, 1), details |-> [error |-> criterion]]

DemandPassScore == 80

\* The entry with `score >= threshold` turned into `score > threshold`.
CriterionEntry_Strict(config, results, seed) ==
    LET e == EvaluateCriterion(config.name, results, config, seed)
    IN  [score |-> e.score,
         threshold |-> config.threshold,
         weight |-> config.weight,
         passed |-> IF config.name = "realistic_demand"
                    THEN RatLE(Rat(DemandPassScore, 1), e.score)
                    ELSE ~RatLE(e.score, Rat(config.threshold, 1)),
         details |-> e.details]

\* The entry validate_results stores for one criterion.
CriterionEntry(config, results, seed) ==
    LET e == EvaluateCriterion(config.name, results, config, seed)
    IN  [score |-> e.score,
         threshold |-> config.threshold,
         weight |-> config.weight,
         passed |-> IF config.name = "realistic_demand"
                    THEN RatLE(Rat(DemandPassScore, 1), e.score)
                    ELSE RatLE(Rat(config.threshold, 1), e.score),
         details |-> e.details]

\* The criteria scored on the records a hash-ordered pass reaches.
CriteriaScores_HashedPass(results, seed) ==
    [c \in {Criteria[k].name : k \in DOMAIN Criteria} |->
        CriterionEntry(
            Criteria[CHOOSE k \in DOMAIN Criteria : Criteria[k].name = c],
            IF seed % 2 = 1 /\ Len(results) > 1 THEN Tail(results) ELSE results,
            seed)]

\* criteria_scores: the entry of every criterion.
CriteriaScores(results, seed) ==
    [c \in {Criteria[k].name : k \in DOMAIN Criteria} |->
        CriterionEntry(
            Criteria[CHOOSE k \in DOMAIN Criteria : Criteria[k].name = c],
            results, seed)]

\* total_weighted_score and total_weight after the first k criteria.
RECURSIVE WeightedSum(_, _)
WeightedSum(scores, k) ==
    IF k = 0 THEN Rat(0, 1)
    ELSE RatAdd(WeightedSum(scores, k - 1),
                RatMul(scores[Criteria[k].name].score,
                       Rat(Criteria[k].weight, 1)))

\* The total weight taken as 100, a percentage scale.
TotalWeight_Hundred(k) == IF k = 0 THEN 0 ELSE 100

RECURSIVE TotalWeight(_)
TotalWeight(k) == IF k = 0 THEN 0 ELSE TotalWeight(k - 1) + Criteria[k].weight

OverallPassScore == 75

\* _generate_recommendations: one message per failed criterion that has a
\* branch (kept as the criterion and the values its template shows), or the
\* all-passed message.
AllPassedMessage == [message |-> "All quality criteria passed"]

Recommendation(name, entry) ==
    IF name = "realistic_demand"
    THEN [criterion |-> name,
          percentage |-> entry.details.percentage_with_availability,
          expected |-> entry.details.expected_threshold]
    ELSE [criterion |-> name, score |-> entry.score,
          threshold |-> entry.threshold]

RECURSIVE RecommendationsFrom(_, _)
RecommendationsFrom(scores, k) ==
    IF k > Len(Criteria) THEN <<>>
    ELSE LET name == Criteria[k].name
         IN  (IF /\ ~scores[name].passed
                 /\ name \in {"realistic_demand", "waitlist_diversity",
                              "campus_completeness", "instructor_completeness"}
              THEN <<Recommendation(name, scores[name])>> ELSE <<>>)
             \o RecommendationsFrom(scores, k + 1)

GenerateRecommendations(scores) ==
    IF RecommendationsFrom(scores, 1) = <<>> THEN <<AllPassedMessage>>
    ELSE RecommendationsFrom(scores, 1)

\* _find_sample_issues
FindSampleIssues(results) ==
    (IF CountIf(results, "IsZeroWaitlist") > 0
     THEN <<[type |-> "zero_waitlist_sample",
             count |-> CountIf(results, "IsZeroWaitlist"),
             sample |-> FirstOf(results, "IsZeroWaitlist", 3)]>>
     ELSE <<>>)
    \o (IF CountIf(results, "IsTbaCampus") > 0
        THEN <<[type |-> "tba_campus_sample",
                count |-> CountIf(results, "IsTbaCampus"),
                sample |-> FirstOf(results, "IsTbaCampus", 3)]>>
        ELSE <<>>)

\* An empty list scored as one without a failing record.
EmptyReport_Perfect ==
    [overall_score |-> Rat(100, 1), passed |-> TRUE, total_courses |-> 0,
     errors |-> <<"No results to validate">>]

\* The report for `not results`.
EmptyReport ==
    [overall_score |-> Rat(0, 1), passed |-> FALSE, total_courses |-> 0,
     errors |-> <<"No results to validate">>]

\* validate_results(results, test_scenario), with the value datetime.now()
\* returns during the call and the hash seed of the interpreter process.
ValidateResults(results, test_scenario, timestamp, seed) ==
    IF results = <<>>
    THEN EmptyReport
    ELSE LET scores == CriteriaScores(results, seed)
             overall == IF TotalWeight(Len(Criteria)) > 0
                        THEN RatMul(WeightedSum(scores, Len(Criteria)),
                                    Rat(1, TotalWeight(Len(Criteria))))
                        ELSE Rat(0, 1)
         IN  [test_scenario |-> test_scenario,
              timestamp |-> timestamp,
              total_courses |-> Len(results),
              criteria_scores |-> scores,
              overall_score |-> overall,
              passed |-> RatLE(Rat(OverallPassScore, 1), overall),
              recommendations |-> GenerateRecommendations(scores),
              sample_issues |-> FindSampleIssues(results)]

-----------------------------------------------------------------------------
(* The application's cache: one file per search, named by the digest of    *)
(* the search parameters.  Times are in minutes.                           *)

\* Python's None, where a text is expected: no text holds this element.
None == <<"None">>

All == <<"a", "l", "l">>

Fall2025 == <<"F", "a", "l", "l", " ", "2", "0", "2", "5">>

\* get_cache_key.  The digest of the string is taken to be the string:
\* different strings have different file names.
get_cache_key(term, subj, course_filter, campus_filter) ==
    term \o <<"_">> \o subj \o <<"_">>
        \o (IF course_filter \in {None, <<>>} THEN All ELSE course_filter)
        \o <<"_">>
        \o (IF campus_filter \in {None, <<>>} THEN All ELSE campus_filter)

CacheDurationMinutes == 30

\* No file of that name.
Absent == [kind |-> "absent"]

\* is_cache_valid: the file exists and is younger than cache_duration.
is_cache_valid(entry, current_time) ==
    /\ entry # Absent
    /\ current_time - entry.mtime < CacheDurationMinutes

\* load_from_cache by the kind of the file's content: a saved entry; text
\* that is not JSON; a JSON object without the key courses; JSON that is
\* not an object.  data.get raises AttributeError on the last, which the
\* except clause does not name.
load_from_cache(entry, current_time) ==
    IF ~is_cache_valid(entry, current_time)
    THEN [status |-> "none", removed |-> FALSE]
    ELSE CASE entry.kind = "saved" ->
                [status |-> "data", removed |-> FALSE,
                 data |-> [courses |-> entry.courses]]
           [] entry.kind = "not_json" -> [status |-> "none", removed |-> TRUE]
           [] entry.kind = "no_courses" ->
                [status |-> "data", removed |-> FALSE,
                 data |-> [timestamp |-> entry.mtime]]
           [] entry.kind = "not_object" ->
                [status |-> "raised", removed |-> FALSE]

\* apply_filters, on records with the two fields it reads.
RECURSIVE apply_filters(_, _, _)
apply_filters(list, course_filter, campus_filter) ==
    IF list = <<>> THEN <<>>
    ELSE (IF /\ course_filter \in {None, <<>>}
                \/ includes(list[1].course, course_filter)
             /\ campus_filter \in {None, <<>>}
                \/ includes(toLowerCase(list[1].campus),
                            toLowerCase(campus_filter))
          THEN <<list[1]>> ELSE <<>>)
         \o apply_filters(Tail(list), course_filter, campus_filter)

\* The searches made: the course filter is none, a number, or the text
\* that stands for none in the key.
CourseFilters == {None, <<"1", "0", "8">>, All}

CampusFilters == {None}

CacheKeys ==
    {get_cache_key(Fall2025, subj, course_filter, campus_filter) :
        subj \in {COMM, BIOL}, course_filter \in CourseFilters,
        campus_filter \in CampusFilters}

\* The sections the site lists for a subject.
SiteCourses(subj) ==
    << [course |-> subj \o <<"1", "0", "8">>, campus |-> Rockville],
       [course |-> subj \o <<"2", "5", "0">>, campus |-> Germantown] >>

-----------------------------------------------------------------------------
(* The inputs explored: pages the scheduling site may return and result    *)
(* lists a results file may hold.                                          *)

StandardHeader ==
    << <<"C", "o", "u", "r", "s", "e">>,
       <<"C", "R", "N">>,
       <<"C", "r", "e", "d", "i", "t", "s">>,
       <<"D", "a", "y", "s">>,
       <<"T", "i", "m", "e">>,
       <<"D", "a", "t", "e", "s">>,
       <<"S", "e", "a", "t", "s", " ", "A", "v", "a", "i", "l">>,
       <<"W", "a", "i", "t", " ", "C", "o", "u", "n", "t">>,
       <<"C", "a", "m", "p", "u", "s">>,
       <<"R", "o", "o", "m">>,
       <<"I", "n", "s", "t", "r", "u", "c", "t", "o", "r">> >>

TypedHeader ==
    << <<"C", "o", "u", "r", "s", "e">>,
       <<"C", "R", "N">>,
       <<"C", "r", "e", "d", "i", "t", "s">>,
       <<"D", "a", "y", "s">>,
       <<"T", "i", "m", "e">>,
       <<"D", "a", "t", "e", "s">>,
       <<"S", "e", "a", "t", "s", " ", "A", "v", "a", "i", "l">>,
       <<"W", "a", "i", "t", " ", "C", "o", "u", "n", "t">>,
       <<"C", "a", "m", "p", "u", "s">>,
       <<"R", "o", "o", "m">>,
       <<"I", "n", "s", "t", "r", "u", "c", "t", "o", "r">>,
       <<"S", "c", "h", "e", "d", "u", "l", "e", " ", "T", "y", "p", "e">> >>

ShiftedHeader ==
    << <<"S", "e", "l", "e", "c", "t">>,
       <<"C", "o", "u", "r", "s", "e">>,
       <<"C", "R", "N">>,
       <<"C", "r", "e", "d", "i", "t", "s">>,
       <<"D", "a", "y", "s">>,
       <<"T", "i", "m", "e">>,
       <<"D", "a", "t", "e", "s">>,
       <<"S", "e", "a", "t", "s", " ", "A", "v", "a", "i", "l">>,
       <<"W", "a", "i", "t", " ", "C", "o", "u", "n", "t">>,
       <<"C", "a", "m", "p", "u", "s">>,
       <<"R", "o", "o", "m">>,
       <<"I", "n", "s", "t", "r", "u", "c", "t", "o", "r">> >>

StandardRow ==
    << <<"C", "O", "M", "M", "1", "0", "8">>,
       <<"2", "0", "3", "8", "8">>,
       <<"3", ".", "0", "0", "0">>,
       <<"T", "R">>,
       <<"8", ":", "0", "0", " ", "A", "M">>,
       <<"0", "9", "/", "0", "2", "/", "2", "5">>,
       <<"2">>,
       <<"5">>,
       <<"R", "o", "c", "k", "v", "i", "l", "l", "e">>,
       <<"T", "A", " ", "2", "1", "0">>,
       <<"T", ".", " ", "S", "a", "l", "o", "w">> >>

TypedRow ==
    << <<"B", "I", "O", "L", "1", "5", "0">>,
       <<"2", "0", "3", "8">>,
       <<"4", ".", "0", "0", "0">>,
       <<>>,
       <<>>,
       <<>>,
       <<"7">>,
       <<"0">>,
       <<>>,
       <<>>,
       <<>>,
       <<"O", "n", "l", "i", "n", "e">> >>

ShiftedRow ==
    << <<"a", "d", "d">>,
       <<" ", "C", "O", "M", "M", "2", "5", "0", " ">>,
       <<"2", "1", "8", "7", "5">>,
       <<"3", ".", "0", "0", "0">>,
       <<"M", "W">>,
       <<"9", ":", "0", "0", " ", "A", "M">>,
       <<"0", "9", "/", "0", "2", "/", "2", "5">>,
       <<"1", "2", "a", "b", "c">>,
       <<"-", "3">>,
       <<"G", "e", "r", "m", "a", "n", "t", "o", "w", "n">>,
       <<"R", "E", "M", "O", "T", "E">>,
       <<"T", "B", "A">> >>

SwappedRow ==
    << <<"2", "0", "3", "8", "8">>,
       <<"C", "O", "M", "M", "1", "0", "8">>,
       <<"3", ".", "0", "0", "0">> >>

ShortRow ==
    << <<"C", "O", "M", "M", "1", "0", "8">>,
       <<"2", "0", "3", "8", "8">> >>

SevenCellRow ==
    << <<"C", "O", "M", "M", "1", "0", "8">>,
       <<"2", "0", "3", "8", "8">>,
       <<"3", ".", "0", "0", "0">>,
       <<"T", "R">>,
       <<"8", ":", "0", "0", " ", "A", "M">>,
       <<"0", "9", "/", "0", "2", "/", "2", "5">>,
       <<"F", "u", "l", "l">> >>

TitleRow ==
    << <<"F", "a", "l", "l", " ", "2", "0", "2", "5">> >>

HeaderVocab ==
    << <<"C", "o", "u", "r", "s", "e">>,
       <<"C", "R", "N">>,
       <<"S", "e", "a", "t", "s", " ", "A", "v", "a", "i", "l">>,
       <<"D", "a", "y", "s">>,
       <<"T", "i", "t", "l", "e">>,
       <<>> >>

LineVocab ==
    << <<"C", "O", "M", "M", "2", "5", "0", " ", " ", "2", "1", "8", "7", "5">>,
       <<"B", "I", "O", "L", "1", "0", "1", " ", "1", "2", "3", "4", "5", " ", "4", ".", "0", "0", "0", " ", "M", "W", " ", "9", ":", "0", "0", " ", "A", "M", " ", "0", "9", "/", "0", "2", "/", "2", "5">>,
       <<"4">>,
       <<"0">>,
       <<"D", "i", "s", "t", "a", "n", "c", "e", " ", "L", "e", "a", "r", "n", "i", "n", "g", " ", "R", "E", "M", "O", "T", "E", " ", "N", "a", "d", "e", "r", " ", "H", ".", " ", "C", "h", "a", "a", "b", "a", "n">>,
       <<"R", "o", "c", "k", "v", "i", "l", "l", "e", "\t", "T", "A", " ", "2", "1", "0", "\t", "T", ".", " ", "S", "a", "l", "o", "w">>,
       <<"2", " ", "5", " ", "R", "o", "c", "k", "v", "i", "l", "l", "e", " ", "T", "A", " ", "2", "1", "0", " ", "T", ".", " ", "S", "a", "l", "o", "w">> >>

Crn20388 == <<"2", "0", "3", "8", "8">>
Crn2038 == <<"2", "0", "3", "8">>
TA210 == <<"T", "A", " ", "2", "1", "0">>
Salow == <<"T", ".", " ", "S", "a", "l", "o", "w">>
COMM108 == <<"C", "O", "M", "M", "1", "0", "8">>
BIOL150 == <<"B", "I", "O", "L", "1", "5", "0">>

MaxFollow == 3
MaxNesting == 0
MaxMajority == 19
MaxMinority == 3
MaxTime == 1
MaxSeed == 1
MaxFailures == 2

Subjects == {COMM, BIOL}

SeqsUpTo(S, n) == UNION {[1..k -> S] : k \in 0..n}

DataRows ==
    {StandardRow, TypedRow, ShiftedRow, SwappedRow, ShortRow, SevenCellRow}

\* Short header rows over the header vocabulary.
ShortHeaders == SeqsUpTo(Range(HeaderVocab), MaxHeaderLen) \ {<<>>}

\* Full-width first rows: the site's headers and (a table without a header)
\* a data row in their place.
WideHeaders == {StandardHeader, TypedHeader, ShiftedHeader} \cup DataRows

\* Tables: a short header and data rows, or title rows, a full-width
\* header and data rows.
Tables ==
    {<<h>> \o body :
        h \in ShortHeaders, body \in SeqsUpTo(DataRows, MaxDataRows)}
    \cup
    {[k \in 1..p |-> TitleRow] \o <<h>> \o body :
        p \in 0..MaxPreamble, h \in WideHeaders,
        body \in SeqsUpTo(DataRows, MaxDataRows)}

\* Texts: nothing, or a course line and the lines that follow it.
Texts ==
    {<<>>} \cup
    {<<c>> \o rest :
        c \in {LineVocab[1], LineVocab[2]},
        rest \in SeqsUpTo(Range(LineVocab), MaxFollow)}

\* Records of a results file.
FileRecords ==
    { [course |-> COMM108, crn |-> Crn20388, seatsAvailable |-> 0,
       waitlistCount |-> 5, campus |-> Rockville, location |-> TA210,
       instructor |-> Salow, hasAvailability |-> FALSE],
      [course |-> BIOL150, crn |-> Crn2038, seatsAvailable |-> 7,
       waitlistCount |-> 0, campus |-> TBA, location |-> TBA,
       instructor |-> TBA, hasAvailability |-> TRUE],
      [course |-> COMM108, crn |-> Crn20388, seatsAvailable |-> 0,
       waitlistCount |-> 0, campus |-> Germantown, location |-> TA210,
       instructor |-> TBA, hasAvailability |-> FALSE],
      [course |-> BIOL150, crn |-> Crn20388, seatsAvailable |-> 3,
       waitlistCount |-> 1, campus |-> Rockville, hasAvailability |-> TRUE] }

Repeat(r, n) == [k \in 1..n |-> r]

\* Result lists: a run of one record followed by a run of another.
ResultLists ==
    {Repeat(a, i) \o Repeat(b, j) :
        a \in FileRecords, b \in FileRecords,
        i \in 0..MaxMajority, j \in 0..MaxMinority}

\* A record without free seats: with or without students waiting, a campus,
\* and the instructor, location and five-digit CRN.
FullRecord(waiting, campus, rest) ==
    [course |-> COMM108,
     crn |-> IF rest THEN Crn20388 ELSE Crn2038,
     seatsAvailable |-> 0,
     waitlistCount |-> IF waiting THEN 5 ELSE 0,
     campus |-> IF campus THEN Rockville ELSE TBA,
     location |-> IF rest THEN TA210 ELSE TBA,
     instructor |-> IF rest THEN Salow ELSE TBA,
     hasAvailability |-> FALSE]

\* Ten-record lists of three kinds of record.
TenRecordLists ==
    {Repeat(FullRecord(TRUE, TRUE, a), 7)
        \o Repeat(FullRecord(FALSE, TRUE, b), 2)
        \o Repeat(FullRecord(FALSE, FALSE, c), 1) : a, b, c \in BOOLEAN}
    \cup
    {Repeat(FullRecord(FALSE, TRUE, b), 3)
        \o Repeat(FullRecord(TRUE, FALSE, c), 1)
        \o Repeat(FullRecord(TRUE, TRUE, a), 6) : a, b, c \in BOOLEAN}

Times == 0..MaxTime

\* Hash seeds of interpreter processes.
Seeds == 0..MaxSeed

-----------------------------------------------------------------------------
(* State: the subject asked for, the page the browser shows, the strategy  *)
(* that ran, the records it returned and the validator's report.           *)

NoPage == [kind |-> "none"]

NoReport == [status |-> "none"]

\* Nothing has been invoked a second time, or returned.
Nothing == [status |-> "none"]

Init ==
    /\ subject \in Subjects
    /\ page = NoPage
    /\ parser = "none"
    /\ courses = <<>>
    /\ report = NoReport
    /\ rerun = Nothing
    /\ recheck = Nothing
    /\ calls = <<>>
    /\ test_results = <<>>
    /\ sorted_results = <<>>
    /\ returned = Nothing
    /\ cache = [key \in CacheKeys |-> Absent]
    /\ now = 0
    /\ answer = Nothing

\* The class search returns a page with a table of sections.
LoadTablePage ==
    /\ page = NoPage /\ parser = "none"
    /\ \E rows \in Tables : page' = [kind |-> "table", rows |-> rows]
    /\ UNCHANGED <<subject, parser, courses, report, second, harness, caching>>

\* The class search returns a page of plain text lines, enclosed in html,
\* body and possibly further elements.
LoadTextPage ==
    /\ page = NoPage /\ parser = "none"
    /\ \E lines \in Texts, n \in 0..MaxNesting :
          page' = [kind |-> "text", lines |-> lines, wrappers |-> 2 + n]
    /\ UNCHANGED <<subject, parser, courses, report, second, harness, caching>>

\* A strategy that uses up the content it reads.
Ran_ConsumesPage(name, result) ==
    /\ parser = "none"
    /\ parser' = name
    /\ courses' = result
    /\ page' = IF page.kind = "table" THEN [page EXCEPT !.rows = <<>>]
                ELSE [page EXCEPT !.lines = <<>>]
    /\ UNCHANGED <<subject, report, second, harness, caching>>

\* A strategy is called on the page and returns its records; the page
\* script only reads the document.
Ran(name, result) ==
    /\ parser = "none"
    /\ parser' = name
    /\ courses' = result
    /\ UNCHANGED <<subject, page, report, second, harness, caching>>

RunSmartHeaderParser ==
    /\ page.kind = "table"
    /\ Ran("smart_header_parser_v1", SmartHeaderParser(page.rows, subject))

RunGenericScraper ==
    /\ page.kind = "table"
    /\ Ran("generic_course_scraper", GenericScraper(page.rows, subject))

RunDynamicColumnParser ==
    /\ page.kind = "table"
    /\ Ran("dynamic_column_parser_v1", DynamicColumnParser(page.rows, subject))

RunTableParser ==
    /\ page.kind = "table"
    /\ Ran("table_parser_v1", TableParser(page.rows, subject))

RunEnhancedTableParser ==
    /\ page.kind = "table"
    /\ Ran("enhanced_table_parser_v1", EnhancedTableParser(page.rows, subject))

RunAlternativeStructureParser ==
    /\ page.kind = "text"
    /\ Ran("alternative_structure_parser_v1",
           AlternativeStructureParser(page.lines, subject, page.wrappers))

RunSimpleBiolExtractor ==
    /\ page.kind = "text"
    /\ Ran("simple_biol_extractor", SimpleBiolExtractor(page.lines))

RunAutomatedScraper ==
    /\ page.kind = "text"
    /\ Ran("automated_course_scraper", AutomatedScraper(page.lines, subject))

RunParseCourseHtml ==
    /\ page.kind = "text"
    /\ Ran("parse_comm_html", parse_course_html(page.lines))

\* validate_results_file: the results come from a file instead of a page.
ReadResultsFile ==
    /\ page = NoPage /\ parser = "none"
    /\ \E rs \in ResultLists \cup TenRecordLists : courses' = rs
    /\ parser' = "results_file"
    /\ UNCHANGED <<subject, page, report, second, harness, caching>>

\* The strategies the comparison harness runs and validates.
HarnessParsers ==
    {"table_parser_v1", "enhanced_table_parser_v1",
     "alternative_structure_parser_v1", "dynamic_column_parser_v1",
     "smart_header_parser_v1"}

\* validate_results on the records at hand: the harness validates what its
\* parsers return (`if results:`), validate_results_file what the file
\* holds.
Validate ==
    /\ \/ parser \in HarnessParsers /\ courses # <<>>
       \/ parser = "results_file"
    /\ report = NoReport
    /\ \E t \in Times, seed \in Seeds :
          report' = ValidateResults(courses, parser, t, seed)
    /\ UNCHANGED <<subject, page, parser, courses, second, harness, caching>>

Next ==
    \/ LoadTablePage
    \/ LoadTextPage
    \/ RunSmartHeaderParser
    \/ RunGenericScraper
    \/ RunDynamicColumnParser
    \/ RunTableParser
    \/ RunEnhancedTableParser
    \/ RunAlternativeStructureParser
    \/ RunSimpleBiolExtractor
    \/ RunAutomatedScraper
    \/ RunParseCourseHtml
    \/ ReadResultsFile
    \/ Validate

Spec == Init /\ [][Next]_vars

-----------------------------------------------------------------------------
(* The same strategy called again on the same page.                        *)

\* extract_course_data of the strategy of that name.
Extract(name, pg, subj) ==
    CASE name = "smart_header_parser_v1" -> SmartHeaderParser(pg.rows, subj)
      [] name = "generic_course_scraper" -> GenericScraper(pg.rows, subj)
      [] name = "dynamic_column_parser_v1" -> DynamicColumnParser(pg.rows, subj)
      [] name = "table_parser_v1" -> TableParser(pg.rows, subj)
      [] name = "enhanced_table_parser_v1" ->
            EnhancedTableParser(pg.rows, subj)
      [] name = "alternative_structure_parser_v1" ->
            AlternativeStructureParser(pg.lines, subj, pg.wrappers)
      [] name = "simple_biol_extractor" -> SimpleBiolExtractor(pg.lines)
      [] name = "automated_course_scraper" -> AutomatedScraper(pg.lines, subj)

\* The strategy that ran is called a second time on the page.
ExtractAgain ==
    /\ parser \notin {"none", "results_file"}
    /\ rerun = Nothing
    /\ rerun' = [courses |-> Extract(parser, page, subject)]
    /\ UNCHANGED <<subject, page, parser, courses, report, recheck, harness, caching>>

ExtractTwiceNext ==
    \/ LoadTablePage
    \/ LoadTextPage
    \/ RunSmartHeaderParser
    \/ RunGenericScraper
    \/ RunDynamicColumnParser
    \/ RunTableParser
    \/ RunEnhancedTableParser
    \/ RunAlternativeStructureParser
    \/ RunSimpleBiolExtractor
    \/ RunAutomatedScraper
    \/ ExtractAgain

ExtractTwiceSpec == Init /\ [][ExtractTwiceNext]_vars

-----------------------------------------------------------------------------
(* validate_results called again on the same list.                         *)

\* A second validate_results on the records, at any time and in the same
\* or another interpreter process.
ValidateAgain ==
    /\ report # NoReport
    /\ recheck = Nothing
    /\ \E t \in Times, seed \in Seeds :
          recheck' = ValidateResults(courses, parser, t, seed)
    /\ UNCHANGED <<subject, page, parser, courses, report, rerun, harness, caching>>

ValidateTwiceInit == Init /\ subject = COMM

ValidateTwiceNext ==
    \/ ReadResultsFile
    \/ Validate
    \/ ValidateAgain

ValidateTwiceSpec == ValidateTwiceInit /\ [][ValidateTwiceNext]_vars

-----------------------------------------------------------------------------
(* ParserTestRunner.run_all_tests: every parser of the list is run on the  *)
(* scenario's page and validated, and the entries are compared.            *)

\* self.parsers, by name and in order.
Parsers ==
    <<"table_parser_v1", "enhanced_table_parser_v1",
      "alternative_structure_parser_v1", "dynamic_column_parser_v1",
      "smart_header_parser_v1">>

\* A section with free seats, no campus and a four-digit CRN.
OpenRow ==
    << COMM108, Crn2038, DefaultCredits, <<"T", "R">>,
       <<"8", ":", "0", "0", " ", "A", "M">>,
       <<"0", "9", "/", "0", "2", "/", "2", "5">>, <<"5">>, <<"0">> >>

\* What the class search shows during a run: a table of sections and,
\* around it, text lines.
ScenarioPages ==
    {[kind |-> "scenario", rows |-> rows, lines |-> <<>>, wrappers |-> 2] :
        rows \in {<<StandardHeader, StandardRow>>,
                  <<ShiftedHeader, ShiftedRow>>,
                  <<TitleRow, OpenRow>>}}
    \cup
    {[kind |-> "scenario", rows |-> <<StandardHeader, StandardRow>>,
      lines |-> <<LineVocab[1], LineVocab[3], LineVocab[4], LineVocab[5]>>,
      wrappers |-> 2]}

\* How one pass of the loop can go: run_test and the saving succeed, the
\* browser cannot be started (run_test raises), the parser raises inside
\* run_test (which then returns no results), or the results file cannot be
\* written.
Outcomes == {"ok", "launch_fails", "parser_fails", "save_fails"}

\* An entry that says nothing about what went wrong.
ErrorEntry_Silent(name, note) ==
    [parser |-> name, score |-> Rat(0, 1), passed |-> FALSE,
     total_courses |-> 0]

\* The entry of a parser that raised or returned no results.
ErrorEntry(name, note) ==
    [parser |-> name, score |-> Rat(0, 1), passed |-> FALSE,
     total_courses |-> 0, error |-> note]

\* The entry of a parser whose results were validated and saved.
ResultEntry(name, results, validation_report, timestamp) ==
    [parser |-> name,
     score |-> validation_report.overall_score,
     passed |-> validation_report.passed,
     total_courses |-> Len(results),
     filename |-> [parser |-> name, timestamp |-> timestamp],
     validation_report |-> validation_report]

\* The entry one pass of the loop appends.
TestEntry(name, outcome, results, timestamp, seed) ==
    IF outcome = "launch_fails" THEN ErrorEntry(name, "exception")
    ELSE IF results = <<>> THEN ErrorEntry(name, "No results returned")
    ELSE IF outcome = "save_fails" THEN ErrorEntry(name, "exception")
    ELSE ResultEntry(name, results,
                     ValidateResults(results, name, timestamp, seed),
                     timestamp)

\* The place of an entry with the entries of equal score ranked in the
\* reverse of their original order.
Rank_TiesReversed(entries, i) ==
    1 + Cardinality({j \in DOMAIN entries :
                        \/ ~RatLE(entries[j].score, entries[i].score)
                        \/ /\ j > i
                           /\ entries[j].score = entries[i].score})

\* The place of entry i in the ranking: after the entries of higher score
\* and after the earlier entries of equal score (the sort is stable).
Rank(entries, i) ==
    1 + Cardinality({j \in DOMAIN entries :
                        \/ ~RatLE(entries[j].score, entries[i].score)
                        \/ /\ j < i
                           /\ entries[j].score = entries[i].score})

\* The entries left in the order of the parser list.
SortedByScore_Unsorted(entries) == entries

\* sorted(test_results, key=score, reverse=True).
SortedByScore(entries) ==
    [p \in DOMAIN entries |->
        entries[CHOOSE i \in DOMAIN entries : Rank(entries, i) = p]]

\* The passes so far that did not go through.
Failures == Cardinality({k \in DOMAIN calls : calls[k].raised})

\* The latest time a results file was stamped with in this run; the clock
\* does not run backwards during a run.
LastTime ==
    LET stamped == {k \in DOMAIN test_results :
                      "filename" \in DOMAIN test_results[k]}
    IN  IF stamped = {} THEN 0
        ELSE LET last == CHOOSE k \in stamped : \A j \in stamped : j <= k
             IN  test_results[last].filename.timestamp

\* The class search answers with the page it shows for the run.
LoadScenarioPage ==
    /\ page = NoPage /\ returned = Nothing
    /\ page' \in ScenarioPages
    /\ UNCHANGED <<subject, parser, courses, report, second, harness, caching>>

\* One pass of `for parser in self.parsers`.
TestParser ==
    /\ page.kind = "scenario"
    /\ Len(calls) < Len(Parsers)
    /\ \E extracted \in {Extract(Parsers[Len(calls) + 1], page, subject)},
          outcome \in Outcomes, t \in LastTime..MaxTime, seed \in Seeds :
          /\ outcome = "ok" \/ Failures < MaxFailures
          /\ \E results \in {IF outcome \in {"launch_fails", "parser_fails"}
                          THEN <<>>
                          ELSE extracted} :
                /\ calls' = Append(calls, [parser |-> Parsers[Len(calls) + 1],
                                           raised |-> outcome # "ok",
                                           found |-> Len(results)])
                /\ test_results' =
                      Append(test_results,
                             TestEntry(Parsers[Len(calls) + 1], outcome,
                                       results, t, seed))
    /\ UNCHANGED <<subject, page, parser, courses, report, second,
                   sorted_results, returned, caching>>

\* _print_comparison_summary and the return of the entries.
PrintComparisonSummary ==
    /\ Len(calls) = Len(Parsers)
    /\ returned = Nothing
    /\ sorted_results' = SortedByScore(test_results)
    /\ returned' = [status |-> "returned", value |-> test_results]
    /\ UNCHANGED <<subject, page, parser, courses, report, second,
                   calls, test_results, caching>>

\* run_all_tests with a scenario name that is not known returns at once.
UnknownScenario ==
    /\ page = NoPage /\ returned = Nothing
    /\ returned' = [status |-> "unknown scenario"]
    /\ UNCHANGED <<subject, page, parser, courses, report, second,
                   calls, test_results, sorted_results, caching>>

HarnessInit == Init /\ subject = COMM

HarnessNext ==
    \/ LoadScenarioPage
    \/ TestParser
    \/ PrintComparisonSummary
    \/ UnknownScenario

HarnessSpec == HarnessInit /\ [][HarnessNext]_vars

-----------------------------------------------------------------------------
(* Line mode on one candidate course line: the extractors that read the    *)
(* page text line by line.                                                 *)

Crn203881 == <<"2", "0", "3", "8", "8", "1">>

\* What follows the CRN on the line: nothing, four more tokens, eight more
\* tokens, or ten more with a time range.
LineTails ==
    {<<>>,
     <<" ", "3", ".", "0", "0", "0", " ", "T", "R", " ", "8", ":", "0", "0", " ", "A", "M">>,
     <<" ", "3", ".", "0", "0", "0", " ", "T", "R", " ", "8", ":", "0", "0", " ", "A", "M", " ", "0", "9", "/", "0", "2", "/", "2", "5", " ", "2", " ", "5", " ", "R", "o", "c", "k", "v", "i", "l", "l", "e">>,
     <<" ", "3", ".", "0", "0", "0", " ", "T", "R", " ", "8", ":", "0", "0", " ", "A", "M", " ", "-", " ", "9", ":", "1", "5", " ", "A", "M", " ", "2", " ", "5", " ", "R", "o", "c", "k", "v", "i", "l", "l", "e">>}

\* A candidate line: a course code with or without its number, a second
\* token of four, five or six digits, and a tail; indented or not.
CandidateLines ==
    {indent \o code \o <<" ">> \o crn \o tail :
        indent \in {<<>>, <<" ", " ">>},
        code \in {COMM108, BIOL150, COMM},
        crn \in {Crn2038, Crn20388, Crn203881},
        tail \in LineTails}

\* The page text: a candidate line, alone or with a seats line, a waitlist
\* line and a campus line after it.
LinePages ==
    {<<c>> \o rest :
        c \in CandidateLines,
        rest \in {<<>>, <<LineVocab[3], LineVocab[4], LineVocab[6]>>}}

LoadLinePage ==
    /\ page = NoPage /\ parser = "none"
    /\ \E lines \in LinePages :
          page' = [kind |-> "text", lines |-> lines, wrappers |-> 2]
    /\ UNCHANGED <<subject, parser, courses, report, second, harness, caching>>

LineModeNext ==
    \/ LoadLinePage
    \/ RunSimpleBiolExtractor
    \/ RunAutomatedScraper
    \/ RunParseCourseHtml

LineModeSpec == Init /\ [][LineModeNext]_vars

-----------------------------------------------------------------------------
(* The forward scan: a course line, lines of other text, and a line with   *)
(* seats or a campus at some distance from the course line.                *)

MaxGap == 12

Lecture == <<"L", "e", "c", "t", "u", "r", "e">>

\* The page text: the course line at index 0, the line looked for at index
\* gap, and lectures in between.
ScanPages ==
    {<<code \o <<" ">> \o Crn20388 \o tail>>
        \o [k \in 1..(gap - 1) |-> Lecture] \o <<last>> :
        code \in {COMM108, BIOL150},
        tail \in {<<" ", "3", ".", "0", "0", "0", " ", "T", "R", " ", "8", ":", "0", "0", " ", "A", "M">>},
        gap \in 1..MaxGap,
        last \in {LineVocab[3], LineVocab[6], LineVocab[7]}}

LoadScanPage ==
    /\ page = NoPage /\ parser = "none"
    /\ \E lines \in ScanPages :
          page' = [kind |-> "text", lines |-> lines, wrappers |-> 2]
    /\ UNCHANGED <<subject, parser, courses, report, second, harness, caching>>

ScanNext ==
    \/ LoadScanPage
    \/ RunSimpleBiolExtractor
    \/ RunAutomatedScraper

ScanSpec == Init /\ [][ScanNext]_vars

-----------------------------------------------------------------------------
(* scrape_courses with use_cache=True, over time, with files of the cache  *)
(* directory that something else has written.                              *)

ClockStep == 15
MaxClock == 60

\* What the live scrape comes to: the site's sections, no section, or an
\* error on the way (caught, and [] returned).
SiteOutcomes == {"sections", "nothing", "error"}

\* The live scrape: the courses extracted are saved when there are any,
\* and returned filtered.
LiveScrape(key, seen, removed, course_filter, campus_filter) ==
    \E outcome \in SiteOutcomes :
        \E extracted \in {IF outcome = "sections" THEN SiteCourses(subject)
                          ELSE <<>>} :
            /\ cache' = [cache EXCEPT ![key] =
                            IF extracted # <<>>
                            THEN [kind |-> "saved", mtime |-> now,
                                  courses |-> extracted]
                            ELSE IF removed THEN Absent ELSE @]
            /\ answer' = [status |-> "live", key |-> key, seen |-> seen,
                          at |-> now,
                          courses |-> apply_filters(extracted, course_filter,
                                                    campus_filter)]

\* scrape_courses(term, subject, course_filter, campus_filter).
ScrapeCourses ==
    /\ \E course_filter \in CourseFilters, campus_filter \in CampusFilters :
          \E key \in {get_cache_key(Fall2025, subject, course_filter,
                                     campus_filter)} :
              \E cached_data \in {load_from_cache(cache[key], now)} :
                  CASE cached_data.status = "raised" ->
                          /\ answer' = [status |-> "raised", key |-> key,
                                        seen |-> cache[key], at |-> now]
                          /\ cache' = cache
                    [] cached_data.status = "data"
                          /\ "courses" \notin DOMAIN cached_data.data ->
                          /\ answer' = [status |-> "raised", key |-> key,
                                        seen |-> cache[key], at |-> now]
                          /\ cache' = cache
                    [] cached_data.status = "data"
                          /\ "courses" \in DOMAIN cached_data.data ->
                          /\ answer' = [status |-> "cache", key |-> key,
                                        seen |-> cache[key], at |-> now,
                                        courses |->
                                            apply_filters(
                                                cached_data.data.courses,
                                                course_filter, campus_filter)]
                          /\ cache' = cache
                    [] cached_data.status = "none" ->
                          LiveScrape(key, cache[key], cached_data.removed,
                                     course_filter, campus_filter)
    /\ UNCHANGED <<subject, page, parser, courses, report, second, harness,
                   now>>

\* Time passes.
Tick ==
    /\ now + ClockStep <= MaxClock
    /\ now' = now + ClockStep
    /\ UNCHANGED <<subject, page, parser, courses, report, second, harness,
                   cache, answer>>

\* A file of the cache directory is written by something other than
\* save_to_cache: a write cut short, or another program.
Damage ==
    /\ \E key \in CacheKeys, kind \in {"not_json", "no_courses", "not_object"} :
          /\ cache[key] # Absent
          /\ cache[key].kind = "saved"
          /\ cache' = [cache EXCEPT ![key] = [kind |-> kind, mtime |-> now]]
    /\ UNCHANGED <<subject, page, parser, courses, report, second, harness,
                   now, answer>>

CacheNext ==
    \/ ScrapeCourses
    \/ Tick
    \/ Damage

CacheSpec == Init /\ [][CacheNext]_vars

-----------------------------------------------------------------------------
(* Properties of the extractors.                                           *)

Extractors ==
    {"smart_header_parser_v1", "generic_course_scraper",
     "dynamic_column_parser_v1", "table_parser_v1",
     "enhanced_table_parser_v1", "alternative_structure_parser_v1",
     "simple_biol_extractor", "automated_course_scraper"}

\* C1: every record an extraction strategy returns has hasAvailability
\* equal to seatsAvailable > waitlistCount.
C1_AvailabilityFlag ==
    parser \in Extractors =>
        \A i \in DOMAIN courses :
            courses[i].hasAvailability
                = (courses[i].seatsAvailable > courses[i].waitlistCount)

\* A strategy returned a record with more seats than waiting students and
\* one with as many.
C1_Witness ==
    /\ parser \in Extractors
    /\ \E i \in DOMAIN courses :
          /\ courses[i].seatsAvailable > courses[i].waitlistCount
          /\ courses[i].hasAvailability
    /\ \E i \in DOMAIN courses :
          /\ courses[i].seatsAvailable = courses[i].waitlistCount
          /\ ~courses[i].hasAvailability

-----------------------------------------------------------------------------
(* Properties of the header-based extractors, stated on the table the page *)
(* shows and the records returned for it.                                  *)

HeaderBased == {"smart_header_parser_v1", "generic_course_scraper"}

ChainOf(name) ==
    IF name = "generic_course_scraper" THEN GenericPatterns ELSE SmartPatterns

\* The table passes the extractor's filter.
TableAccepted ==
    /\ page.kind = "table"
    /\ Len(page.rows) >= 2
    /\ includes(TextContent(page.rows), subject)

HeaderCells == TrimCells(page.rows[HeaderRowIndex(page.rows) + 1])

\* The column map the extractor that ran built from the header.
BuiltMap == SmartColumnMap(HeaderCells, ChainOf(parser))

\* The rows below the header, in order.
RowsAfterHeader ==
    [i \in 1..(Len(page.rows) - HeaderRowIndex(page.rows) - 1) |->
        TrimCells(page.rows[HeaderRowIndex(page.rows) + 1 + i])]

\* The column a field is said to be read from: the column of its header
\* cell, whichever it is, and the fallback only for a field without one.
ColumnOf(columnMap, field, fallback) ==
    IF field \in DOMAIN columnMap THEN columnMap[field] ELSE fallback

StartsWithSubject(cells, k) ==
    startsWith(OrText(Cell(cells, k), <<>>), subject)

\* The rows below the header that have at least min cells and whose course
\* cell starts with the subject code.
CourseRows(columnMap, min) ==
    SelectSeq(RowsAfterHeader,
              LAMBDA cells :
                  /\ Len(cells) >= min
                  /\ StartsWithSubject(cells, ColumnOf(columnMap, "course", 0)))

\* record holds, field by field, what the row has in the columns the map
\* names (or the fallback columns), with the defaults for empty cells.
ReadAs(record, cells, columnMap) ==
    LET at(field, fallback) == Cell(cells, ColumnOf(columnMap, field, fallback))
    IN  /\ record.course = OrText(at("course", 0), TBA)
        /\ record.crn = OrText(at("crn", 1), TBA)
        /\ record.credits = OrText(at("credits", 2), DefaultCredits)
        /\ record.days = OrText(at("days", 3), TBA)
        /\ record.time = OrText(at("time", 4), TBA)
        /\ record.dates = OrText(at("dates", 5), TBA)
        /\ record.seatsAvailable = OrZero(parseInt(at("seatsAvailable", 6)))
        /\ record.waitlistCount = OrZero(parseInt(at("waitlistCount", 7)))
        /\ record.campus = OrText(at("campus", 8), TBA)
        /\ record.location = OrText(at("location", 9), TBA)
        /\ record.instructor = OrText(at("instructor", 10), TBA)
        /\ record.scheduleType
              = OrText(at("scheduleType", 11), DefaultScheduleType)

\* The records are those of the rows given, one each and in order, read
\* through columnMap.
RecordsOf(rows, columnMap) ==
    /\ Len(courses) = Len(rows)
    /\ \A i \in DOMAIN courses : ReadAs(courses[i], rows[i], columnMap)

\* C2: a field whose header cell was matched at column k is read from
\* column k of every data row, also for k = 0; only a field without a
\* header cell is read from its fallback column.
C2_ReadFromMatchedColumn ==
    (parser \in HeaderBased /\ TableAccepted) =>
        RecordsOf(CourseRows(BuiltMap, 3), BuiltMap)

\* No header cell is blank once lower-cased and stripped.
NoBlankHeaderCell ==
    \A i \in DOMAIN HeaderCells :
        stripNonAlnum(toLowerCase(HeaderCells[i])) # <<>>

\* C3: a field that two header cells match keeps the column of the earlier
\* cell (stated for headers without blank cells).
C3_EarlierCellWins ==
    (parser \in HeaderBased /\ TableAccepted /\ NoBlankHeaderCell) =>
        \A f \in DOMAIN BuiltMap :
            /\ MatchField(HeaderCells[BuiltMap[f] + 1], ChainOf(parser)) = f
            /\ \A i \in 1..BuiltMap[f] :
                  MatchField(HeaderCells[i], ChainOf(parser)) # f

Injective(columnMap) ==
    \A f, g \in DOMAIN columnMap :
        f # g => columnMap[f] # columnMap[g]

\* C4: the column map built from a header row never gives the same column
\* to two fields.
C4_ColumnsUnique ==
    /\ (parser \in HeaderBased /\ page.kind = "table") => Injective(BuiltMap)
    /\ (parser = "dynamic_column_parser_v1" /\ page.kind = "table") =>
          Injective(DynamicColumnMap(
              [i \in DOMAIN page.rows[1] |->
                  toLowerCase(trim(page.rows[1][i]))]))

\* A header-based extractor ran on a header that two cells of which match
\* the same field, and that maps at least two fields.
C4_Witness ==
    /\ parser \in HeaderBased
    /\ page.kind = "table"
    /\ Cardinality(DOMAIN BuiltMap) >= 2
    /\ \E i, j \in DOMAIN HeaderCells :
          /\ i < j
          /\ MatchField(HeaderCells[i], ChainOf(parser)) # "none"
          /\ MatchField(HeaderCells[i], ChainOf(parser))
                = MatchField(HeaderCells[j], ChainOf(parser))

\* C5: when no cell of the first three rows holds course, crn, wait or
\* seat, the column map is empty and every record is read from the
\* fallback columns of a row (stated for first rows without blank cells).
C5_NoStrongTokenEmptyMap ==
    (parser \in HeaderBased /\ TableAccepted /\ NoBlankHeaderCell
        /\ FindHeaderRow(page.rows) = 0 - 1) =>
        /\ BuiltMap = EmptyMap
        /\ \A i \in DOMAIN courses :
              \E k \in DOMAIN page.rows :
                  ReadAs(courses[i], TrimCells(page.rows[k]), EmptyMap)

\* No cell of the header matches a field.
ZeroMatch ==
    \A i \in DOMAIN HeaderCells :
        MatchField(HeaderCells[i], ChainOf(parser)) = "none"

\* C6 as stated: with a header none of whose cells matches a field, every
\* row below the header whose course cell starts with the subject code has
\* a record, read from the fallback columns.
C6_RecordForEverySubjectRow ==
    (parser \in HeaderBased /\ TableAccepted /\ ZeroMatch) =>
        \A k \in DOMAIN RowsAfterHeader :
            StartsWithSubject(RowsAfterHeader[k], 0) =>
                \E i \in DOMAIN courses :
                    ReadAs(courses[i], RowsAfterHeader[k], EmptyMap)

\* C6 amended: with a header none of whose cells matches a field, the
\* records are those of the rows below the header that have at least 3
\* cells and whose first cell starts with the subject code, each read from
\* the fallback columns.
C6_RecordForEveryCourseRow ==
    (parser \in HeaderBased /\ page.kind = "table" /\ ZeroMatch) =>
        RecordsOf(CourseRows(EmptyMap, 3), EmptyMap)

\* A header-based extractor returned a record for a table whose header
\* matches no field.
C6_Witness ==
    /\ parser \in HeaderBased
    /\ TableAccepted
    /\ ZeroMatch
    /\ Len(courses) >= 1

\* The course cells of the records are those of the rows given, in order.
CoursesOf(rows, k) ==
    /\ Len(courses) = Len(rows)
    /\ \A i \in DOMAIN courses : courses[i].course = Cell(rows[i], k)

\* The rows from the second on, as TableParser goes through them.
RowsAfterFirst ==
    [i \in 1..(Len(page.rows) - 1) |-> TrimCells(page.rows[i + 1])]

\* C7 as stated: in tabular mode a row below the header yields exactly one
\* record if and only if it has at least 3 cells and its course cell starts
\* with the subject code.
C7_ThreeCellsAndSubject ==
    /\ (parser \in HeaderBased /\ page.kind = "table") =>
          CoursesOf(CourseRows(BuiltMap, 3), ColumnOf(BuiltMap, "course", 0))
    /\ (parser = "table_parser_v1" /\ page.kind = "table") =>
          CoursesOf(SelectSeq(RowsAfterFirst,
                              LAMBDA cells : /\ Len(cells) >= 3
                                             /\ StartsWithSubject(cells, 0)),
                    0)

\* C7 amended: in the header-based extractors a row below the header yields
\* exactly one record if and only if it has at least 3 cells and its course
\* cell starts with the subject code; in TableParser, if and only if the
\* table's text holds "CRN", the row is below the first, has at least 8
\* cells and its first cell starts with the subject code.
C7_RowYieldsRecord ==
    /\ (parser \in HeaderBased /\ page.kind = "table") =>
          CoursesOf(CourseRows(BuiltMap, 3), ColumnOf(BuiltMap, "course", 0))
    /\ (parser = "table_parser_v1" /\ page.kind = "table") =>
          CoursesOf(SelectSeq(RowsAfterFirst,
                              LAMBDA cells :
                                  /\ includes(TextContent(page.rows), CRNLabel)
                                  /\ Len(cells) >= 8
                                  /\ StartsWithSubject(cells, 0)),
                    0)

\* A header-based extractor returned the record of a row of exactly 3 cells
\* whose course cell, in the column the header names, starts with the
\* subject code.
C7_Witness ==
    /\ parser \in HeaderBased
    /\ page.kind = "table"
    /\ Len(courses) = 1
    /\ Len(CourseRows(BuiltMap, 3)) = 1
    /\ Len(CourseRows(BuiltMap, 3)[1]) = 3
    /\ ColumnOf(BuiltMap, "course", 0) = 1

-----------------------------------------------------------------------------
(* Properties of the line-oriented extractors.                             *)

\* The page is one course block: a course line the extractor that ran
\* recognises, a line with an integer, another, and a campus line.
CourseBlock ==
    /\ page.kind = "text"
    /\ Len(page.lines) = 4
    /\ parser \in {"simple_biol_extractor", "automated_course_scraper"}
    /\ IsCourseLine(page.lines[1],
                    IF parser = "simple_biol_extractor" THEN BIOL ELSE subject)
    /\ IsNumber(page.lines[2])
    /\ IsNumber(page.lines[3])
    /\ HasCampusToken(page.lines[4])

\* C8: a course block with the integer lines a and b yields exactly one
\* record, with seatsAvailable = a, waitlistCount = b, hasAvailability =
\* (a > b) and the canonical name of the campus line's token as campus.
C8_BlockYieldsRecord ==
    CourseBlock =>
        /\ Len(courses) = 1
        /\ courses[1].seatsAvailable = NumVal(page.lines[2])
        /\ courses[1].waitlistCount = NumVal(page.lines[3])
        /\ courses[1].hasAvailability
              = (NumVal(page.lines[2]) > NumVal(page.lines[3]))
        /\ courses[1].campus = CampusName(page.lines[4], TBA)

-----------------------------------------------------------------------------
(* Properties of the validator's report.                                   *)

\* The criteria scored as a plain percentage, with the thresholds and the
\* predicates the report is said to apply.
PercentageCriteria ==
    { [name |-> "waitlist_diversity", threshold |-> 60],
      [name |-> "campus_completeness", threshold |-> 90],
      [name |-> "instructor_completeness", threshold |-> 80],
      [name |-> "location_completeness", threshold |-> 70],
      [name |-> "data_consistency", threshold |-> 95] }

Has(r, key) == key \in DOMAIN r

Matches(name, r) ==
    CASE name = "waitlist_diversity" ->
            Has(r, "waitlistCount") /\ r.waitlistCount > 0
      [] name = "campus_completeness" -> Has(r, "campus") /\ r.campus # TBA
      [] name = "instructor_completeness" ->
            Has(r, "instructor") /\ r.instructor # TBA
      [] name = "location_completeness" ->
            Has(r, "location") /\ r.location # TBA
      [] name = "data_consistency" ->
            /\ Has(r, "crn")
            /\ Len(r.crn) = 5
            /\ \A i \in 1..5 : r.crn[i] \in Digits

MatchCount(name) ==
    Cardinality({i \in DOMAIN courses : Matches(name, courses[i])})

Validated == report # NoReport /\ courses # <<>>

\* C9: for each of the five percentage criteria the score is
\* 100 * matching / total, and the criterion is passed exactly when the
\* score is at least its threshold.
C9_PercentageScores ==
    Validated =>
        \A c \in PercentageCriteria :
            LET e == report.criteria_scores[c.name]
            IN  /\ e.score.num * Len(courses)
                      = e.score.den * 100 * MatchCount(c.name)
                /\ e.passed
                      = (100 * MatchCount(c.name) >= c.threshold * Len(courses))

\* A report with a percentage criterion exactly at its threshold, and
\* passed, and another below its threshold, and failed.
C9_Witness ==
    /\ Validated
    /\ \E c \in PercentageCriteria :
          /\ 100 * MatchCount(c.name) = c.threshold * Len(courses)
          /\ report.criteria_scores[c.name].passed
    /\ \E c \in PercentageCriteria :
          /\ 100 * MatchCount(c.name) < c.threshold * Len(courses)
          /\ MatchCount(c.name) > 0
          /\ ~report.criteria_scores[c.name].passed

\* The records with more seats than waiting students.
AvailableCount ==
    Cardinality({i \in DOMAIN courses :
        (IF Has(courses[i], "seatsAvailable")
         THEN courses[i].seatsAvailable ELSE 0)
        > (IF Has(courses[i], "waitlistCount")
           THEN courses[i].waitlistCount ELSE 0)})

\* 100 * Len(courses) times the score said to be given for realistic_demand:
\* 100 for p <= 15, max(0, 100 - 3.33 * (p - 15)) otherwise, where
\* p = 100 * AvailableCount / Len(courses).
ScaledDemandScore ==
    LET n == Len(courses)
        k == AvailableCount
        decayed == 10000 * n - 333 * (100 * k - 15 * n)
    IN  IF 100 * k <= 15 * n THEN 10000 * n
        ELSE IF decayed > 0 THEN decayed ELSE 0

ClaimedWeights ==
    << [name |-> "realistic_demand", weight |-> 50],
       [name |-> "waitlist_diversity", weight |-> 30],
       [name |-> "campus_completeness", weight |-> 25],
       [name |-> "instructor_completeness", weight |-> 20],
       [name |-> "location_completeness", weight |-> 10],
       [name |-> "data_consistency", weight |-> 5] >>

\* The sum of score * weight over the first k criteria of the report.
RECURSIVE ReportedSum(_)
ReportedSum(k) ==
    IF k = 0 THEN Rat(0, 1)
    ELSE RatAdd(ReportedSum(k - 1),
                RatMul(report.criteria_scores[ClaimedWeights[k].name].score,
                       Rat(ClaimedWeights[k].weight, 1)))

\* 100 * Len(courses) times the sum over the six criteria of score * weight,
\* with the scores as C9 and C10 state them.
ScaledWeightedSum ==
    50 * ScaledDemandScore
    + 10000 * (30 * MatchCount("waitlist_diversity")
               + 25 * MatchCount("campus_completeness")
               + 20 * MatchCount("instructor_completeness")
               + 10 * MatchCount("location_completeness")
               + 5 * MatchCount("data_consistency"))

\* 100 * Len(courses) times the total weight 50 + 30 + 25 + 20 + 10 + 5.
ScaledWeight == 140 * 100 * Len(courses)

\* C11: overall_score is the sum of score * weight over the six criteria
\* divided by 140, lies in [0, 100], and passed is true exactly when
\* overall_score is at least 75.
C11_OverallScore ==
    Validated =>
        /\ report.overall_score = RatMul(ReportedSum(6), Rat(1, 140))
        /\ RatLE(Rat(0, 1), report.overall_score)
        /\ RatLE(report.overall_score, Rat(100, 1))
        /\ report.passed = RatLE(Rat(75, 1), report.overall_score)

\* A report that passes with an overall score below 80, several criteria
\* scoring differently.
C11_Witness ==
    /\ Validated
    /\ report.passed
    /\ ScaledWeightedSum < 80 * ScaledWeight
    /\ MatchCount("waitlist_diversity") # MatchCount("campus_completeness")
    /\ MatchCount("campus_completeness") # MatchCount("instructor_completeness")

\* C13: validate_results on an empty list returns a report with
\* overall_score 0 and passed false.
C13_EmptyListFails ==
    (report # NoReport /\ courses = <<>>) =>
        /\ report.overall_score = Rat(0, 1)
        /\ ~report.passed

\* An empty results file was validated.
C13_Witness ==
    /\ parser = "results_file"
    /\ courses = <<>>
    /\ report # NoReport

\* The list has 10 records, 7 with students waiting, 9 with a campus and
\* none with more seats than students waiting.
TenSevenNine ==
    /\ Validated
    /\ Len(courses) = 10
    /\ MatchCount("waitlist_diversity") = 7
    /\ MatchCount("campus_completeness") = 9
    /\ AvailableCount = 0

ScoredAndPassed(name, n) ==
    /\ report.criteria_scores[name].score = Rat(n, 1)
    /\ report.criteria_scores[name].passed

\* C12 as stated: such a list scores waitlist_diversity 70, campus_completeness
\* 90 and realistic_demand 100, all passed, and the report is passed.
C12_ExamplePasses ==
    TenSevenNine =>
        /\ ScoredAndPassed("waitlist_diversity", 70)
        /\ ScoredAndPassed("campus_completeness", 90)
        /\ ScoredAndPassed("realistic_demand", 100)
        /\ report.passed

\* C12 amended: the three criteria score 70, 90 and 100 and are passed, and
\* the report is passed exactly when 20 * i + 10 * l + 5 * c >= 1150 for the
\* scores i, l, c of instructor_completeness, location_completeness and
\* data_consistency.
C12_ExampleScores ==
    TenSevenNine =>
        /\ ScoredAndPassed("waitlist_diversity", 70)
        /\ ScoredAndPassed("campus_completeness", 90)
        /\ ScoredAndPassed("realistic_demand", 100)
        /\ report.passed
              = (20 * 10 * MatchCount("instructor_completeness")
                 + 10 * 10 * MatchCount("location_completeness")
                 + 5 * 10 * MatchCount("data_consistency") >= 1150)

\* Such a list whose report is passed although not every record has an
\* instructor.
C12_Witness ==
    /\ TenSevenNine
    /\ report.passed
    /\ MatchCount("instructor_completeness") \in 1..9

-----------------------------------------------------------------------------
(* Properties of repeated invocations.                                     *)

Timeless(r) ==
    IF "timestamp" \in DOMAIN r
    THEN [r EXCEPT
            !.timestamp = 0,
            !.criteria_scores["campus_completeness"].details.campus_types
                = <<Range(@)>>]
    ELSE r

-----------------------------------------------------------------------------
(* Properties of the strategy comparison.                                  *)

Returned == returned # Nothing /\ returned.status = "returned"

\* The entries come in non-increasing order of score.
NonIncreasing(entries) ==
    \A i, j \in DOMAIN entries :
        i < j => RatLE(entries[j].score, entries[i].score)

ListIndex(name) == CHOOSE i \in DOMAIN Parsers : Parsers[i] = name

\* C16 as stated: of two entries of equal score the one with more records
\* is ranked first.
C16_TiesByRecordCount ==
    Returned =>
        \A i, j \in DOMAIN sorted_results :
            (/\ i < j
             /\ sorted_results[i].score = sorted_results[j].score) =>
                sorted_results[i].total_courses
                    >= sorted_results[j].total_courses

\* C16 amended: two entries of equal score are ranked in the order of the
\* parser list, whatever their record counts.
C16_TiesKeepListOrder ==
    Returned =>
        \A i, j \in DOMAIN sorted_results :
            (/\ i < j
             /\ sorted_results[i].score = sorted_results[j].score) =>
                ListIndex(sorted_results[i].parser)
                    < ListIndex(sorted_results[j].parser)

\* A ranking in which an entry with fewer records stands before an entry
\* of equal score with more, no parser having raised.
C16_Witness ==
    /\ Returned
    /\ Failures = 0
    /\ \E i, j \in DOMAIN sorted_results :
          /\ i < j
          /\ sorted_results[i].score = sorted_results[j].score
          /\ sorted_results[i].total_courses < sorted_results[j].total_courses

\* C17: every parser of the list is run once, in order, and has one entry;
\* the entry of a parser that raised or returned no results has score 0,
\* passed false, total_courses 0 and an error note.
C17_OneEntryEach ==
    /\ Len(calls) <= Len(Parsers)
    /\ Len(test_results) = Len(calls)
    /\ Returned => Len(calls) = Len(Parsers)
    /\ \A i \in DOMAIN calls :
          /\ calls[i].parser = Parsers[i]
          /\ test_results[i].parser = Parsers[i]
          /\ (calls[i].raised \/ calls[i].found = 0) =>
                /\ test_results[i].score = Rat(0, 1)
                /\ ~test_results[i].passed
                /\ test_results[i].total_courses = 0
                /\ "error" \in DOMAIN test_results[i]

\* A finished run in which one parser raised, another returned no results
\* and a third passed validation.
C17_Witness ==
    /\ Returned
    /\ \E i \in DOMAIN calls : calls[i].raised
    /\ \E i \in DOMAIN calls : ~calls[i].raised /\ calls[i].found = 0
    /\ \E i \in DOMAIN test_results : test_results[i].passed

-----------------------------------------------------------------------------
(* Properties of extraction by subject.                                    *)

AllExtractors == Extractors \cup {"parse_comm_html"}

\* The subject code an extractor looks for: its argument, or the code
\* written into its pattern.
RequestedSubject(name) ==
    CASE name = "simple_biol_extractor" -> BIOL
      [] name = "parse_comm_html" -> COMM
      [] OTHER -> subject

\* The text a table row starts with: its first cell that is not blank.
RowStart(row) ==
    LET cells == TrimCells(row)
        filled == {k \in DOMAIN cells : cells[k] # <<>>}
    IN  IF filled = {} THEN <<>>
        ELSE cells[CHOOSE k \in filled : \A m \in filled : k <= m]

NoLineStartsWith(subj) ==
    \A i \in DOMAIN page.lines : ~startsWith(trim(page.lines[i]), subj)

NoRowStartsWith(subj) ==
    \A i \in DOMAIN page.rows : ~startsWith(RowStart(page.rows[i]), subj)

NoCellStartsWith(subj) ==
    \A i \in DOMAIN page.rows :
        \A k \in DOMAIN page.rows[i] :
            ~startsWith(trim(page.rows[i][k]), subj)

\* C18 as stated: when no row and no line of the content starts with the
\* requested subject code, the extraction returns no records.
C18_NoRowNoRecords ==
    (/\ parser \in AllExtractors
     /\ IF page.kind = "table"
        THEN NoRowStartsWith(RequestedSubject(parser))
        ELSE NoLineStartsWith(RequestedSubject(parser))) =>
        courses = <<>>

\* C18 amended: when no cell of any row and no line of the content starts
\* with the requested subject code, the extraction returns no records.
C18_NoCellNoRecords ==
    (/\ parser \in AllExtractors
     /\ IF page.kind = "table"
        THEN NoCellStartsWith(RequestedSubject(parser))
        ELSE NoLineStartsWith(RequestedSubject(parser))) =>
        courses = <<>>

\* SmartHeaderParser has run for BIOL on a table with a header and rows of
\* COMM sections.
C18_Witness ==
    /\ parser = "smart_header_parser_v1"
    /\ page.kind = "table"
    /\ Len(page.rows) >= 2
    /\ \E i \in DOMAIN page.rows : startsWith(RowStart(page.rows[i]), COMM)
    /\ NoCellStartsWith(subject)
    /\ courses = <<>>

\* The course line of the line mode: the subject code and a number, then a
\* second token of exactly five digits.
ClaimedCourseLine(line, subj) ==
    LET parts == SplitSpace(line)
    IN  /\ Len(parts) >= 2
        /\ startsWith(parts[1], subj)
        /\ IsNumber(Drop(parts[1], Len(subj)))
        /\ IsNumber(parts[2])
        /\ Len(parts[2]) = 5

\* C20: a line extractor returns one record for each line that, trimmed,
\* is a course line, whatever else the line holds, and none for any other
\* line.
C20_RecordIffCourseLine ==
    (/\ parser \in {"simple_biol_extractor", "automated_course_scraper",
                     "parse_comm_html"}
     /\ page.kind = "text") =>
        Len(courses) =
            Cardinality({i \in DOMAIN page.lines :
                ClaimedCourseLine(trim(page.lines[i]),
                                  RequestedSubject(parser))})

-----------------------------------------------------------------------------
(* Properties of the forward scan.                                         *)

\* The page without its last line.
WithoutLastLine ==
    [page EXCEPT !.lines = SubSeq(page.lines, 1, Len(page.lines) - 1)]

\* The records differ from those of the page without its last line.
LastLineUsed == courses # Extract(parser, WithoutLastLine, subject)

\* The last line is one the extractor looks for: a campus line, or for
\* simple_biol_extractor a line of digits.
LastLineWanted ==
    LET last == trim(page.lines[Len(page.lines)])
    IN  \/ HasCampusToken(last)
        \/ parser = "simple_biol_extractor" /\ IsNumber(last)

\* C21: the scan after a course line at index 0 uses a seats or campus
\* line at index 10 or less and never a line at index 11 or more.
C21_ScanTenLines ==
    (/\ parser \in {"simple_biol_extractor", "automated_course_scraper"}
     /\ page.kind = "text"
     /\ Len(page.lines) >= 2
     /\ courses # <<>>
     /\ LastLineWanted) =>
        LastLineUsed = (Len(page.lines) - 1 <= 10)

-----------------------------------------------------------------------------
(* Properties of header detection.                                         *)

\* A cell that holds course, crn, wait or seat in any case.
KeywordCell(text) ==
    \E word \in {<<"c", "o", "u", "r", "s", "e">>, <<"c", "r", "n">>,
                  <<"w", "a", "i", "t">>, <<"s", "e", "a", "t">>} :
        includes(toLowerCase(text), word)

\* The lowest of the rows 0, 1, 2 with a keyword cell, row 0 where none
\* has one.
ClaimedHeader(rows) ==
    LET keyed == {i \in 0..2 :
                    /\ i < Len(rows)
                    /\ \E k \in DOMAIN rows[i + 1] :
                          KeywordCell(trim(rows[i + 1][k]))}
    IN  IF keyed = {} THEN 0
        ELSE CHOOSE i \in keyed : \A j \in keyed : i <= j

\* The records of the rows after row h, read under the header in row h.
RecordsUnder(name, rows, h) ==
    MappedRows(rows, h + 1,
               SmartColumnMap(TrimCells(rows[h + 1]),
                              IF name = "generic_course_scraper"
                              THEN GenericPatterns ELSE SmartPatterns),
               subject, name = "generic_course_scraper")

\* C22: the header is the lowest of rows 0, 1, 2 with a cell holding
\* course, crn, wait or seat, and row 0 if there is none; the records are
\* those of the rows after it, read under it.
C22_HeaderRow ==
    (/\ parser \in HeaderBased
     /\ page.kind = "table"
     /\ courses # <<>>) =>
        /\ Len(courses) <= Len(page.rows) - (ClaimedHeader(page.rows) + 1)
        /\ courses = RecordsUnder(parser, page.rows, ClaimedHeader(page.rows))

\* A header in row 1 or 2, under a title row, with a record read under it
\* that differs from the record read under row 0.
C22_Witness ==
    /\ parser \in HeaderBased
    /\ page.kind = "table"
    /\ ClaimedHeader(page.rows) >= 1
    /\ courses # <<>>
    /\ courses # RecordsUnder(parser, page.rows, 0)

-----------------------------------------------------------------------------
(* Properties of the fields of tabular records.                            *)

Tabular ==
    HeaderBased \cup {"table_parser_v1", "enhanced_table_parser_v1"}

\* Every row of the table, as EnhancedTableParser goes through them.
EveryRow == [i \in 1..Len(page.rows) |-> TrimCells(page.rows[i])]

\* The rows the records of the extractor that ran come from, in order.
SourceRows ==
    CASE parser \in HeaderBased -> CourseRows(BuiltMap, 3)
      [] parser = "table_parser_v1" ->
            SelectSeq(RowsAfterFirst,
                      LAMBDA cells :
                          /\ includes(TextContent(page.rows), CRNLabel)
                          /\ Len(cells) >= 8
                          /\ StartsWithSubject(cells, 0))
      [] parser = "enhanced_table_parser_v1" ->
            SelectSeq(EveryRow,
                      LAMBDA cells :
                          Len(cells) >= 8 /\ IsCourseCode(cells[1], subject))

\* The fields of the claim and their positional columns.
StringFields == {"credits", "campus", "location", "instructor", "scheduleType"}

Positional(field) ==
    CASE field = "credits" -> 2
      [] field = "seatsAvailable" -> 6
      [] field = "waitlistCount" -> 7
      [] field = "campus" -> 8
      [] field = "location" -> 9
      [] field = "instructor" -> 10
      [] field = "scheduleType" -> 11

\* The column map of the extractor that ran: the positional extractors
\* have none.
MapInUse == IF parser \in HeaderBased THEN BuiltMap ELSE EmptyMap

\* The cell a field of the record is read from.
SourceCell(columnMap, cells, field) ==
    Cell(cells, MapOr(columnMap, field, Positional(field)))

Blank(x) == x = Undefined \/ x = <<>>

BlankDefault(cells, field) ==
    CASE field = "scheduleType" -> DefaultScheduleType
      [] parser = "enhanced_table_parser_v1" /\ Len(cells) >= 12 -> <<>>
      [] field = "credits" -> DefaultCredits
      [] OTHER -> TBA

Numeric(x) == x # Undefined /\ IsNumber(trim(x))

\* C24: seatsAvailable and waitlistCount of a tabular record are
\* non-negative integers, and 0 when the source cell is missing or its text
\* is not a number.
C24_CountsDefaultZero ==
    (parser \in Tabular /\ page.kind = "table") =>
        \A rows \in {SourceRows}, columnMap \in {MapInUse} :
            /\ Len(courses) = Len(rows)
            /\ \A i \in DOMAIN courses :
                  \A field \in {"seatsAvailable", "waitlistCount"} :
                      /\ courses[i][field] \in Nat
                      /\ ~Numeric(SourceCell(columnMap, rows[i], field)) =>
                            courses[i][field] = 0

-----------------------------------------------------------------------------
(* Properties of the report's recommendations and of realistic_demand.     *)

CriterionNames == {Criteria[k].name : k \in DOMAIN Criteria}

\* The recommendations hold one about the criterion of that name.
Recommended(name) ==
    \E j \in DOMAIN report.recommendations :
        /\ "criterion" \in DOMAIN report.recommendations[j]
        /\ report.recommendations[j].criterion = name

\* C25: the recommendations hold one for every criterion that is not
\* passed, and the message that all criteria passed exactly when all six
\* are passed.
C25_RecommendationPerFailure ==
    Validated =>
        /\ \A name \in CriterionNames :
              ~report.criteria_scores[name].passed => Recommended(name)
        /\ (\E j \in DOMAIN report.recommendations :
                report.recommendations[j] = AllPassedMessage)
              = (\A name \in CriterionNames :
                    report.criteria_scores[name].passed)

\* C26: realistic_demand is passed exactly when the percentage of records
\* with more seats than waiting students is at most 15, the threshold the
\* report holds for it.
C26_PassedUpToThreshold ==
    Validated =>
        /\ report.criteria_scores["realistic_demand"].threshold = 15
        /\ report.criteria_scores["realistic_demand"].passed
              = (100 * AvailableCount <= 15 * Len(courses))

-----------------------------------------------------------------------------
(* Properties of the cache.                                                *)

\* C27: a call is answered from the cache only if the file of its key was
\* written less than cache_duration before; a call that finds no file, an
\* expired file or a corrupted file is answered by a live scrape.
C27_CacheOnlyWhenFresh ==
    answer # Nothing =>
        /\ answer.status = "cache" =>
              /\ answer.seen # Absent
              /\ answer.at - answer.seen.mtime < 30
        /\ (\/ answer.seen = Absent
             \/ answer.at - answer.seen.mtime >= 30
             \/ answer.seen.kind # "saved") =>
              answer.status = "live"

-----------------------------------------------------------------------------
(* The two copies of the smart header mapper.                              *)

\* C28: from the header row of any table, the copy in the application and
\* the copy in the development harness build the same column map.
C28_SameColumnMap ==
    page.kind = "table" /\ page.rows # <<>> =>
        SmartColumnMap(HeaderCells, GenericPatterns)
            = SmartColumnMap(HeaderCells, SmartPatterns)

-----------------------------------------------------------------------------
(* Header cells without letters or digits.                                 *)

\* The header cell at position i is empty once lower-cased and stripped.
NormalizedEmpty(i) == stripNonAlnum(toLowerCase(HeaderCells[i])) = <<>>

\* The map built when such cells are passed over.
MapWithoutBlanks ==
    AssignColumns([i \in DOMAIN HeaderCells |->
                      IF NormalizedEmpty(i) THEN "none"
                      ELSE MatchField(HeaderCells[i], ChainOf(parser))],
                  1, EmptyMap)

\* C29: a header cell whose normalized text is empty matches no field, so
\* the column map is the one built from the other header cells alone.
C29_BlankHeaderCellIgnored ==
    (parser \in HeaderBased /\ TableAccepted) => BuiltMap = MapWithoutBlanks

-----------------------------------------------------------------------------
(* Records of AlternativeStructureParser.                                  *)

\* The course lines of the page text, in order, each occurrence once.
CourseLineOccurrences ==
    SelectSeq(page.lines,
              LAMBDA line : trim(line) # <<>> /\ IsCourseLine(trim(line), subject))

\* C30: AlternativeStructureParser returns exactly one record for each
\* occurrence of a course line, whatever the number of nested elements
\* whose text holds the line.
C30_OneRecordPerCourseLine ==
    (parser = "alternative_structure_parser_v1" /\ page.kind = "text") =>
        Len(courses) = Len(CourseLineOccurrences)

====
